---- MODULE Spec2Model ----
(***************************************************************************)
(* Model of the fractale workflow engine.                                  *)
(*                                                                         *)
(*  Part I  - the Orchestrator: ManagerAgent.run_tasks driving a Plan of   *)
(*            Steps with per-agent attempt counters and the recovery       *)
(*            router (get_recovery_step + plan.insert).                    *)
(*  Part II - the WorkloadController: KubernetesJobAgent.run_step /        *)
(*            deploy / finish_deploy / optimize / scale.                   *)
(*                                                                         *)
(*  Part III - update_manifest, the patch step of the optimization loop.    *)
(*  Part IV  - the run loops of the agents (build, kubernetes_job,         *)
(*             flux-batch, scaling) and their attempt counters.            *)
(*  Part V   - the poll loop of finish_deploy, statement by statement.      *)
(*  Part VI  - the Context of one Orchestrator run (reset, workspace).     *)
(*                                                                         *)
(* Each part is checked under its own specification (Spec, JobSpec,        *)
(* PatchSpec, AgentSpec, PollSpec, ContextSpec) and leaves the variables   *)
(* of the other parts untouched.                                           *)
(***************************************************************************)
EXTENDS Integers, Sequences, FiniteSets, TLC

\* ------------------------------------------------------------------------
\* Bounds of the model (not program constants)
\* ------------------------------------------------------------------------
\* longest plan handed to the Orchestrator
MaxPlan == 2
\* largest "attempts" value a plan step declares
MaxAttempts == 2
\* cap on every per-agent attempt counter (bounds the run)
MaxCount == 3

\* ------------------------------------------------------------------------
\* Part I - Orchestrator
\* ------------------------------------------------------------------------
VARIABLES
    plan,                \* the Plan: sequence of step records
    current_step_index,  \* run_tasks: 0-based index of the next step
    attempts,            \* run_tasks: attempts[agent], the per-agent counter
    tracker,             \* run_tasks: one entry per step execution
    pc,                  \* position of run_tasks: "loop", "break", "raised", "done"
    outcome,             \* what run_tasks reported: "none", "success", "failed"
    abort_reason,        \* which break left the loop
    next_id,             \* history: identity given to the next inserted step
    corrective           \* history: id of the corrective step inserted by the
                         \* previous iteration (0 when there is none)

mvars == <<plan, current_step_index, attempts, tracker, pc, outcome,
           abort_reason, next_id, corrective>>

\* Part II, the WorkloadController
VARIABLES
    jpc,               \* position of the agent (see the actions)
    manifest,          \* context.result: the manifest text, by its shape
    agent_attempts,    \* self.attempts
    max_attempts,      \* self.max_attempts (0: None)
    is_optimizing,     \* context.is_optimizing
    scale,             \* context.scale is not None
    sizes,             \* context.sizes
    size,              \* context.size (0: unset)
    scaling_attempts,  \* context.scaling_attempts: dict size -> best FOM, in
                       \* insertion order
    cached_sizes,      \* self.metadata["assets"]["sizes"] (<<0>>: absent)
    in_scale,          \* a scale() frame is waiting for optimize to return
    was_timeout,       \* context.was_timeout
    was_unsatisfiable, \* context.was_unsatisfiable
    poll_i,            \* finish_deploy: poll_i, the iterations of the poll loop done
    pod,               \* finish_deploy: a pod handle is resolved
    broke,             \* finish_deploy: which break left the poll loop
    live,              \* cluster: the applied workload exists
    full_logs,         \* the log text handed to optimize / scale
    best_fom,          \* context.optimize_result["best_fom"] (0: unset)
    retries,           \* RETRY verdicts so far
    result,            \* the (exit code, message) pair last returned
    fd_exit,           \* history: how finish_deploy was last left
    scaling_result,    \* context.scaling_result["decision"], from the step of
                       \* scale that read it to the next step ("none" else)
    sweep              \* history of the scaling study: "none", "clean" (every
                       \* optimize returned 0 and every verdict was PROCEED so
                       \* far), "done" (a clean study that stopped after its
                       \* last size), "dirty" (anything else)

jvars == <<jpc, manifest, agent_attempts, max_attempts, is_optimizing,
           scale, sizes, size, scaling_attempts, cached_sizes, in_scale,
           was_timeout, was_unsatisfiable, poll_i, pod, broke, live, full_logs,
           best_fom, retries, result, fd_exit, sweep, scaling_result>>

\* Part III, update_manifest
VARIABLES
    um_manifest,       \* update_manifest: the manifest argument (job_crd)
    um_updates,        \* update_manifest: the updates argument (the patch)
    um_results         \* history: what the calls made so far returned

pvars == <<um_manifest, um_updates, um_results>>

\* Part IV, the run loops of the agents
VARIABLES
    ag_kind,           \* which agent runs
    ag_max,            \* self.max_attempts (0: None)
    ag_attempts,       \* self.attempts (0: None or 0)
    ag_failed,         \* history: runs that ended with a non-zero exit code
    ag_reprompts,      \* history: prompts sent again after a malformed answer
    ag_additional,     \* ScalingAgent.run: the "additional" text of the call
    ag_pc,             \* "run", "confirm_stop", "done", "returned", "exit",
                       \* "raised"
    ag_result,         \* ScalingAgent.run: context.scaling_result["decision"]
                       \* ("none": not set)
    ag_stop,           \* ScalingAgent.run: what confirm_stop() returned for
                       \* the last STOP answer ("asked" while it waits)
    ag_rejects,        \* history: STOP answers the user did not confirm
    ag_job,            \* kubernetes_job: the Job object is in the cluster
    ag_return          \* kubernetes_job: the return statement the last
                       \* deploy() left by ("none": no deploy yet)

avars == <<ag_kind, ag_max, ag_attempts, ag_failed, ag_reprompts,
           ag_additional, ag_pc,
           ag_result, ag_stop, ag_rejects,
           ag_job, ag_return>>

\* Part V, the poll loop of finish_deploy, statement by statement
VARIABLES
    pl_pc,             \* "status", "lookup", "inspect", "logs", "optimize",
                       \* "returned", "final_status", "raised", "idle"
    pl_i,              \* i of "for i in range(30)"
    pl_tries,          \* tries of the pod lookup of this iteration
    pl_pod,            \* pod is not None
    pl_optimizing,     \* context.is_optimizing
    pl_reads,          \* history: calls of obj.get_status()
    pl_cause,          \* history: why finish_deploy returned
    pl_cleanup,        \* context.cleanup is True
    pl_live,           \* cluster: the workload exists
    pl_diag            \* history: get_diagnostics was called while the
                       \* workload existed ("live"), after it was deleted
                       \* ("gone"), or not at all ("none")

lvars == <<pl_pc, pl_i, pl_tries, pl_pod, pl_optimizing, pl_reads, pl_cause,
           pl_cleanup, pl_live, pl_diag>>

\* Part VI, the Context of one Orchestrator run
VARIABLES
    cx_pc,             \* "iter", "stepped", "executed", "after_loop",
                       \* "raising", "ended", "raised", "idle"
    cx_data,           \* context.data: key -> value (0: the key is absent)
    cx_keep,           \* the context carries the keep flag
    cx_workspace,      \* the directory context.workspace exists
    cx_cleared,        \* history: the keys the last reset took a value from
    cx_file,           \* content of the first file under <workspace>/result/
                       \* (0: no such file)
    cx_got             \* history of the last context.get("result"): the value
                       \* in memory before it and the value it returned

cvars == <<cx_pc, cx_data, cx_keep, cx_workspace, cx_cleared, cx_file,
           cx_got>>

\* the variables of the parts that are checked on their own
xvars == <<pvars, avars, lvars, cvars>>

\* agents registered with the manager (self.agents)
Registered == {"build", "kubernetes-job"}
\* every agent name a step may carry; "ghost" is not registered
AgentNames == Registered \cup {"ghost"}

\* Step.attempts: step.get("attempts") or None; 0 stands for None (a declared
\* 0 is turned into None by the "or default" of Step.get)
NoMaximum == 0

\* what the recovery oracle may answer besides a step: unparsable text (None)
\* or an exception raised while the router runs
RouterNone == "none"
RouterRaise == "raise"

\* a budget check that never trips
reached_maximum_never(step, count) == FALSE

\* Step.reached_maximum_attempts(attempts)
reached_maximum_attempts(step, count) ==
    IF step.attempts = NoMaximum THEN FALSE
    ELSE IF step.attempts > count THEN TRUE
    ELSE FALSE

\* list.insert(index, item) for 0 <= index <= len
ListInsert(seq, index, item) ==
    SubSeq(seq, 1, index) \o <<item>> \o SubSeq(seq, index + 1, Len(seq))

\* variant: the corrective step is spliced in after the failed step
PlanInsertAfter(p, index, item) == ListInsert(p, index + 1, item)

\* plan.insert(current_step_index, recovery_step)
PlanInsert(p, index, item) == ListInsert(p, index, item)

\* the step run_tasks is looking at: plan[current_step_index]
CurrentStep == plan[current_step_index + 1]

\* plans the Orchestrator is started with: every step names a registered agent
InitialSteps == [agent : Registered, attempts : 0..MaxAttempts]
InitialPlans ==
    UNION {[1..n -> InitialSteps] : n \in 0..MaxPlan}

WithIds(p) == [i \in 1..Len(p) |-> [id |-> i, agent |-> p[i].agent,
                                     attempts |-> p[i].attempts]]

MInit ==
    /\ plan \in {WithIds(p) : p \in InitialPlans}
    /\ current_step_index = 0
    /\ attempts = [a \in AgentNames |-> 0]
    /\ tracker = <<>>
    /\ pc = "loop"
    /\ outcome = "none"
    /\ abort_reason = "none"
    /\ next_id = Len(plan) + 1
    /\ corrective = 0

\* the Orchestrator part at rest (used while the WorkloadController is checked)
MIdle ==
    /\ plan = <<>>
    /\ current_step_index = 0
    /\ attempts = [a \in AgentNames |-> 0]
    /\ tracker = <<>>
    /\ pc = "done"
    /\ outcome = "none"
    /\ abort_reason = "none"
    /\ next_id = 1
    /\ corrective = 0

InLoop == pc = "loop" /\ current_step_index < Len(plan)

\* manager.py: "if step.agent not in self.agents: ... break"
AgentNotRegistered ==
    /\ InLoop
    /\ CurrentStep.agent \notin Registered
    /\ pc' = "break"
    /\ abort_reason' = "unregistered"
    /\ UNCHANGED <<plan, current_step_index, attempts, tracker, outcome,
                   next_id, corrective>>
    /\ UNCHANGED <<jvars, xvars>>

\* "if step.reached_maximum_attempts(attempts[step.agent]): ... break"
ReachedMaximum ==
    /\ InLoop
    /\ CurrentStep.agent \in Registered
    /\ reached_maximum_attempts(CurrentStep, attempts[CurrentStep.agent])
    /\ pc' = "break"
    /\ abort_reason' = "max_attempts"
    /\ UNCHANGED <<plan, current_step_index, attempts, tracker, outcome,
                   next_id, corrective>>
    /\ UNCHANGED <<jvars, xvars>>

\* the step may run: guard shared by the three outcomes of one iteration
MayExecute ==
    /\ InLoop
    /\ CurrentStep.agent \in Registered
    /\ ~reached_maximum_attempts(CurrentStep, attempts[CurrentStep.agent])
    /\ attempts[CurrentStep.agent] < MaxCount

\* tracker.append(...), extended with what the properties need to see
Entry(step, rc, asked) ==
    [id |-> step.id, agent |-> step.agent, max |-> step.attempts,
     attempt |-> attempts[step.agent] + 1,
     index |-> current_step_index, rc |-> rc, router |-> asked]

\* variant: a successful step does not advance the index
StepSucceedsStays ==
    /\ MayExecute
    /\ attempts' = [attempts EXCEPT ![CurrentStep.agent] = @ + 1]
    /\ tracker' = Append(tracker, Entry(CurrentStep, 0, FALSE))
    /\ corrective' = 0
    /\ UNCHANGED <<plan, current_step_index, pc, outcome, abort_reason, next_id>>
    /\ UNCHANGED <<jvars, xvars>>

\* one iteration: attempts += 1, execute, exit code 0, index += 1
StepSucceeds ==
    /\ MayExecute
    /\ attempts' = [attempts EXCEPT ![CurrentStep.agent] = @ + 1]
    /\ tracker' = Append(tracker, Entry(CurrentStep, 0, FALSE))
    /\ current_step_index' = current_step_index + 1
    /\ corrective' = 0
    /\ UNCHANGED <<plan, pc, outcome, abort_reason, next_id>>
    /\ UNCHANGED <<jvars, xvars>>

\* variant: splicing a corrective step in starts its agent's counter afresh
StepFailsInsertResets ==
    /\ MayExecute
    /\ \E name \in AgentNames :
         /\ plan' = PlanInsert(plan, current_step_index,
                       [id |-> next_id, agent |-> name, attempts |-> NoMaximum])
         /\ attempts' = [a \in AgentNames |->
                           IF a = name THEN 0
                           ELSE IF a = CurrentStep.agent THEN attempts[a] + 1
                           ELSE attempts[a]]
    /\ tracker' = Append(tracker, Entry(CurrentStep, 1, TRUE))
    /\ corrective' = next_id
    /\ next_id' = next_id + 1
    /\ UNCHANGED <<current_step_index, pc, outcome, abort_reason>>
    /\ UNCHANGED <<jvars, xvars>>

\* one iteration: attempts += 1, execute, non-zero exit code, the router
\* answers with a step, plan.insert(current_step_index, recovery_step)
StepFailsInsert ==
    /\ MayExecute
    /\ \E name \in AgentNames :
         /\ plan' = PlanInsert(plan, current_step_index,
                       [id |-> next_id, agent |-> name, attempts |-> NoMaximum])
    /\ attempts' = [attempts EXCEPT ![CurrentStep.agent] = @ + 1]
    /\ tracker' = Append(tracker, Entry(CurrentStep, 1, TRUE))
    /\ corrective' = next_id
    /\ next_id' = next_id + 1
    /\ UNCHANGED <<current_step_index, pc, outcome, abort_reason>>
    /\ UNCHANGED <<jvars, xvars>>

\* one iteration: attempts += 1, execute, non-zero exit code, the router
\* returns None ("Could not determine recovery step", break) or raises
StepFailsAbort ==
    /\ MayExecute
    /\ \E answer \in {RouterNone, RouterRaise} :
         /\ pc' = IF answer = RouterNone THEN "break" ELSE "raised"
         /\ abort_reason' = IF answer = RouterNone THEN "no_recovery"
                            ELSE "exception"
    /\ attempts' = [attempts EXCEPT ![CurrentStep.agent] = @ + 1]
    /\ tracker' = Append(tracker, Entry(CurrentStep, 1, TRUE))
    /\ corrective' = 0
    /\ UNCHANGED <<plan, current_step_index, outcome, next_id>>
    /\ UNCHANGED <<jvars, xvars>>

\* variant: the final report does not compare the index with the plan length
ReportAlwaysSuccess ==
    /\ \/ pc = "loop" /\ current_step_index >= Len(plan)
       \/ pc = "break"
    /\ outcome' = "success"
    /\ pc' = "done"
    /\ UNCHANGED <<plan, current_step_index, attempts, tracker, abort_reason,
                   next_id, corrective>>
    /\ UNCHANGED <<jvars, xvars>>

\* after the loop: "if current_step_index == len(plan): Workflow Success
\* else: Workflow Failed"
Report ==
    /\ \/ pc = "loop" /\ current_step_index >= Len(plan)
       \/ pc = "break"
    /\ outcome' = IF current_step_index = Len(plan) THEN "success" ELSE "failed"
    /\ pc' = "done"
    /\ UNCHANGED <<plan, current_step_index, attempts, tracker, abort_reason,
                   next_id, corrective>>
    /\ UNCHANGED <<jvars, xvars>>

MNext ==
    \/ AgentNotRegistered
    \/ ReachedMaximum
    \/ StepSucceeds
    \/ StepFailsInsert
    \/ StepFailsAbort
    \/ Report

\* ------------------------------------------------------------------------
\* Part II - WorkloadController (KubernetesJobAgent)
\* ------------------------------------------------------------------------
\* optimize RETRY verdicts the oracle gives in one run
MaxRetry == 1
\* longest list of sizes of a scaling study
MaxSizes == 2
\* largest max_attempts the agent is configured with, and the cap on its
\* internal attempt counter when no maximum is configured
MaxStepAttempts == 1

\* "for i in range(30)": iterations of the poll loop of finish_deploy
PollLimit == 30

\* shapes of a generated manifest, as deploy and check tell them apart
Shapes == {"empty", "badyaml", "noname", "nocontainers", "ok"}
Manifests == [shape : Shapes \ {"ok"}, image : {"expected"}]
                \cup [shape : {"ok"}, image : {"expected", "other"}]
NoManifest == [shape |-> "empty", image |-> "expected"]

SizeValues == 1..MaxSizes
\* lists of distinct sizes
SizeLists == {q \in UNION {[1..n -> SizeValues] : n \in 0..MaxSizes} :
                \A a, b \in DOMAIN q : a # b => q[a] # q[b]}
Foms == {1, 2}
\* marks an absent list (0 is no size)
Unset == <<0>>

\* objects.container_issues / the reasons pod.has_failed_container reports
container_issues == {"OOMKilled", "CrashLoopBackOff"}
\* what pod.wait_for_complete() may report
FinalStatuses == {"Succeeded", "Failed", "Lost"} \cup container_issues

NoResult == [rc |-> 0, kind |-> "none", diag |-> FALSE]
NoExit == [cause |-> "none", how |-> "none", first |-> FALSE, pod |-> FALSE,
           oom |-> FALSE, optimizing |-> FALSE, deleted |-> FALSE]

\* a dict that puts a new key in front
DictSetFront(d, key, value) ==
    IF \E k \in DOMAIN d : d[k].size = key
    THEN [k \in DOMAIN d |-> IF d[k].size = key
                             THEN [size |-> key, fom |-> value] ELSE d[k]]
    ELSE <<[size |-> key, fom |-> value]>> \o d

\* dict[key] = value, keeping insertion order
DictSet(d, key, value) ==
    IF \E k \in DOMAIN d : d[k].size = key
    THEN [k \in DOMAIN d |-> IF d[k].size = key
                             THEN [size |-> key, fom |-> value] ELSE d[k]]
    ELSE Append(d, [size |-> key, fom |-> value])

\* del dict[key]
DictDel(d, key) == SelectSeq(d, LAMBDA e : e.size # key)

DictHas(d, key) == \E k \in DOMAIN d : d[k].size = key

SeqToSet(q) == {q[k] : k \in DOMAIN q}

JInit ==
    /\ jpc = "run_step"
    /\ manifest = NoManifest
    /\ agent_attempts = 0
    /\ max_attempts \in 0..MaxStepAttempts
    /\ is_optimizing \in BOOLEAN
    /\ scale \in BOOLEAN
    /\ sizes \in (IF scale THEN SizeLists ELSE {<<>>})
    /\ size = 0
    /\ scaling_attempts = <<>>
    /\ cached_sizes = Unset
    /\ in_scale = FALSE
    /\ was_timeout = FALSE
    /\ was_unsatisfiable = FALSE
    /\ poll_i = 0
    /\ pod = FALSE
    /\ broke = "none"
    /\ live = FALSE
    /\ full_logs = "none"
    /\ best_fom = 0
    /\ retries = 0
    /\ result = NoResult
    /\ fd_exit = NoExit
    /\ sweep = "none"
    /\ scaling_result = "none"

\* the WorkloadController at rest (used while the Orchestrator is checked)
JIdle ==
    /\ jpc = "idle"
    /\ manifest = NoManifest
    /\ agent_attempts = 0
    /\ max_attempts = 0
    /\ is_optimizing = FALSE
    /\ scale = FALSE
    /\ sizes = <<>>
    /\ size = 0
    /\ scaling_attempts = <<>>
    /\ cached_sizes = Unset
    /\ in_scale = FALSE
    /\ was_timeout = FALSE
    /\ was_unsatisfiable = FALSE
    /\ poll_i = 0
    /\ pod = FALSE
    /\ broke = "none"
    /\ live = FALSE
    /\ full_logs = "none"
    /\ best_fom = 0
    /\ retries = 0
    /\ result = NoResult
    /\ fd_exit = NoExit
    /\ sweep = "none"
    /\ scaling_result = "none"

\* The locals of a frame that is over (i, pod of finish_deploy; the pair a
\* caller has consumed; the log text optimize was called with) are put back
\* to their initial values, so that states differing only in dead locals
\* are one state.
Cfg == <<max_attempts, scale>>
Study == <<sizes, size, scaling_attempts, cached_sizes, in_scale, best_fom,
           sweep>>
Flags == <<was_timeout, was_unsatisfiable>>
Loop == <<poll_i, pod, broke>>

LoopOver == poll_i' = 0 /\ pod' = FALSE /\ broke' = "none"
NoExitNow == fd_exit' = NoExit
\* scale reads context.scaling_result right after the scaling agent wrote it
\* and nothing reads it later
NoVerdictNow == scaling_result' = "none"

\* "return rc, message" out of deploy / finish_deploy / optimize: every call
\* on that chain is a tail call, so the pair goes to the scale() frame that
\* called optimize when there is one, and to run_step otherwise
Return(rc, kind, diag) ==
    /\ result' = [rc |-> rc, kind |-> kind, diag |-> diag]
    /\ jpc' = IF in_scale THEN "scale_ret" ELSE "run_step_ret"

\* "return self.optimize(context, obj, context.result, logs)"
CallOptimize(logs) ==
    /\ jpc' = "optimize"
    /\ full_logs' = logs

\* history of the exit of finish_deploy
Exit(cause, how, oom, deleted) ==
    fd_exit' = [cause |-> cause, how |-> how, first |-> (poll_i = 0),
                pod |-> pod, oom |-> oom, optimizing |-> is_optimizing,
                deleted |-> deleted]

\* run_step: generate_manifest puts the generated text in context.result
RunStep ==
    /\ jpc = "run_step"
    /\ manifest' \in Manifests
    /\ jpc' = "deploy"
    /\ NoExitNow
    /\ UNCHANGED <<Cfg, Study, Flags, Loop, agent_attempts, is_optimizing,
                   live, full_logs, retries, result>>
    /\ NoVerdictNow
    /\ UNCHANGED <<mvars, xvars>>

\* deploy: "if not context.result: raise ValueError", and in check the write
\* through job_data["spec"]['template"'] when the image has to be replaced
DeployRaises ==
    /\ jpc = "deploy"
    /\ \/ manifest.shape = "empty"
       \/ manifest.shape = "ok" /\ manifest.image # "expected"
    /\ jpc' = "raised"
    /\ NoExitNow
    /\ UNCHANGED <<Cfg, Study, Flags, Loop, manifest, agent_attempts,
                   is_optimizing, live, full_logs, retries, result>>
    /\ NoVerdictNow
    /\ UNCHANGED <<mvars, xvars>>

\* deploy: yaml does not load, no .metadata.name, no containers: return 1
DeployInvalid ==
    /\ jpc = "deploy"
    /\ manifest.shape \in {"badyaml", "noname", "nocontainers"}
    /\ Return(1, manifest.shape, FALSE)
    /\ NoExitNow
    /\ UNCHANGED <<Cfg, Study, Flags, Loop, manifest, agent_attempts,
                   is_optimizing, live, full_logs, retries>>
    /\ NoVerdictNow
    /\ UNCHANGED <<mvars, xvars>>

DeployChecked ==
    jpc = "deploy" /\ manifest.shape = "ok" /\ manifest.image = "expected"

\* an apply-failure branch that clears the flags of the context
DeployApplyFailsClearsFlags ==
    /\ DeployChecked
    /\ Return(1, "apply_error", FALSE)
    /\ NoExitNow
    /\ was_timeout' = FALSE
    /\ was_unsatisfiable' = FALSE
    /\ UNCHANGED <<Cfg, Study, Loop, manifest, agent_attempts,
                   is_optimizing, live, full_logs, retries>>
    /\ NoVerdictNow
    /\ UNCHANGED <<mvars, xvars>>

\* deploy: job.apply fails: return (p.returncode, p.stdout + p.stderr)
DeployApplyFails ==
    /\ DeployChecked
    /\ Return(1, "apply_error", FALSE)
    /\ NoExitNow
    /\ UNCHANGED <<Cfg, Study, Flags, Loop, manifest, agent_attempts,
                   is_optimizing, live, full_logs, retries>>
    /\ NoVerdictNow
    /\ UNCHANGED <<mvars, xvars>>

\* deploy: job.apply succeeds, finish_deploy starts with pod = None
DeployApplied ==
    /\ DeployChecked
    /\ live' = TRUE
    /\ poll_i' = 0
    /\ pod' = FALSE
    /\ broke' = "none"
    /\ jpc' = "poll"
    /\ NoExitNow
    /\ UNCHANGED <<Cfg, Study, Flags, manifest, agent_attempts, is_optimizing,
                   full_logs, retries, result>>
    /\ NoVerdictNow
    /\ UNCHANGED <<mvars, xvars>>

Polling == jpc = "poll" /\ poll_i < PollLimit

PollFrame == <<Cfg, Study, Flags, manifest, agent_attempts, is_optimizing,
               retries>>

\* after a break nothing reads i any more; the model keeps of it whether
\* the loop was left in its first iteration
AfterBreak(n) == IF n = 0 THEN 0 ELSE 1

\* poll: status.succeeded > 0: break
PollJobSucceeded ==
    /\ Polling
    /\ broke' = "job_succeeded"
    /\ jpc' = "logs"
    /\ poll_i' = AfterBreak(poll_i)
    /\ UNCHANGED <<PollFrame, pod, live, full_logs, result, fd_exit>>
    /\ NoVerdictNow
    /\ UNCHANGED <<mvars, xvars>>

\* a job-failed branch that returns without the cleanup
PollJobFailedKeepsWorkload ==
    /\ Polling
    /\ live' = live
    /\ Return(1, "job_failed", TRUE)
    /\ \E oom \in BOOLEAN : Exit("job_failed", "return", pod /\ oom, FALSE)
    /\ LoopOver
    /\ UNCHANGED <<PollFrame, full_logs>>
    /\ NoVerdictNow
    /\ UNCHANGED <<mvars, xvars>>

\* poll: status.failed > 0: diagnostics, cleanup, return 1
PollJobFailed ==
    /\ Polling
    /\ live' = FALSE
    /\ Return(1, "job_failed", TRUE)
    /\ \E oom \in BOOLEAN : Exit("job_failed", "return", pod /\ oom, TRUE)
    /\ LoopOver
    /\ UNCHANGED <<PollFrame, full_logs>>
    /\ NoVerdictNow
    /\ UNCHANGED <<mvars, xvars>>

\* poll: the job is not terminal and no pod shows up in the 10 tries
PollNoPod ==
    /\ Polling
    /\ ~pod
    /\ poll_i' = poll_i + 1
    /\ UNCHANGED <<PollFrame, jpc, pod, broke, live, full_logs, result, fd_exit>>
    /\ NoVerdictNow
    /\ UNCHANGED <<mvars, xvars>>

\* poll: a pod handle is there (or shows up within the tries) but get_info
\* is empty: pod = None, next iteration
PollPodGone ==
    /\ Polling
    /\ pod' = FALSE
    /\ poll_i' = poll_i + 1
    /\ UNCHANGED <<PollFrame, jpc, broke, live, full_logs, result, fd_exit>>
    /\ NoVerdictNow
    /\ UNCHANGED <<mvars, xvars>>

\* poll: the pod is Running with all containers ready, or Succeeded: break
PollPodReady ==
    /\ Polling
    /\ pod' = TRUE
    /\ broke' \in {"pod_ready", "pod_succeeded"}
    /\ jpc' = "logs"
    /\ poll_i' = AfterBreak(poll_i)
    /\ UNCHANGED <<PollFrame, live, full_logs, result, fd_exit>>
    /\ NoVerdictNow
    /\ UNCHANGED <<mvars, xvars>>

\* poll: the pod is neither ready nor failed: sleep, next iteration
PollPodWaiting ==
    /\ Polling
    /\ pod' = TRUE
    /\ poll_i' = poll_i + 1
    /\ UNCHANGED <<PollFrame, jpc, broke, live, full_logs, result, fd_exit>>
    /\ NoVerdictNow
    /\ UNCHANGED <<mvars, xvars>>

ExitFatal(how, reason) ==
    fd_exit' = [cause |-> "pod_fatal", how |-> how, first |-> (poll_i = 0),
                pod |-> TRUE, oom |-> (reason = "OOMKilled"),
                optimizing |-> is_optimizing, deleted |-> TRUE]

\* poll: has_failed_container gives a reason; OOMKilled while optimizing goes
\* to optimize, everything else returns 1 with the diagnostics
PollPodFatal ==
    /\ Polling
    /\ live' = FALSE
    /\ \E reason \in container_issues :
         IF reason = "OOMKilled" /\ is_optimizing
         THEN /\ CallOptimize("oom_note")
              /\ ExitFatal("optimize", reason)
              /\ UNCHANGED result
         ELSE /\ Return(1, "pod_fatal", TRUE)
              /\ ExitFatal("return", reason)
              /\ UNCHANGED full_logs
    /\ LoopOver
    /\ UNCHANGED PollFrame
    /\ NoVerdictNow
    /\ UNCHANGED <<mvars, xvars>>

\* a timeout branch that returns the bare message
PollTimeoutBareMessage ==
    /\ jpc = "poll"
    /\ poll_i >= PollLimit
    /\ live' = FALSE
    /\ Return(1, "timeout", FALSE)
    /\ Exit("timeout", "return", FALSE, TRUE)
    /\ LoopOver
    /\ UNCHANGED <<PollFrame, full_logs>>
    /\ NoVerdictNow
    /\ UNCHANGED <<mvars, xvars>>

\* the for loop ran out: cleanup, diagnostics, return 1 (Timeout)
PollTimeout ==
    /\ jpc = "poll"
    /\ poll_i >= PollLimit
    /\ live' = FALSE
    /\ Return(1, "timeout", TRUE)
    /\ Exit("timeout", "return", FALSE, TRUE)
    /\ LoopOver
    /\ UNCHANGED <<PollFrame, full_logs>>
    /\ NoVerdictNow
    /\ UNCHANGED <<mvars, xvars>>

\* after the loop, pod is None (the job succeeded before a pod was resolved):
\* pod.wait_for_ready() raises AttributeError
LogsNoPod ==
    /\ jpc = "logs"
    /\ ~pod
    /\ jpc' = "raised"
    /\ Exit("no_pod", "raise", FALSE, FALSE)
    /\ LoopOver
    /\ UNCHANGED <<PollFrame, live, full_logs, result>>
    /\ NoVerdictNow
    /\ UNCHANGED <<mvars, xvars>>

LogsFrame == <<Cfg, Study, manifest, agent_attempts, is_optimizing, retries>>

\* a log collection that leaves the workload on the cluster
LogsCollectedKeepsWorkload ==
    /\ jpc = "logs"
    /\ pod
    /\ was_timeout' \in BOOLEAN
    /\ was_unsatisfiable' \in BOOLEAN
    /\ live' = live
    /\ LoopOver

\* logs are collected, the flags are written, diagnostics are taken and the
\* workload is deleted ("cleanup(callback, obj)") before the final status
\* is looked at
LogsCollected ==
    /\ jpc = "logs"
    /\ pod
    /\ was_timeout' \in BOOLEAN
    /\ was_unsatisfiable' \in BOOLEAN
    /\ live' = FALSE
    /\ LoopOver

\* a flag that is read as never set
to_optimizing_never == FALSE

to_optimizing == is_optimizing = TRUE
to_scaling == scale /\ ~to_optimizing

\* a success branch that returns 0 from inside an optimization round
FinishSucceededLeavesLoop ==
    /\ LogsCollected
    /\ IF to_scaling
       THEN /\ jpc' = "scale"
            /\ full_logs' = "run_logs"
            /\ Exit("final_succeeded", "scale", FALSE, TRUE)
            /\ UNCHANGED result
       ELSE /\ Return(0, "run_logs", FALSE)
            /\ Exit("final_succeeded", "return", FALSE, TRUE)
            /\ UNCHANGED full_logs
    /\ UNCHANGED LogsFrame
    /\ NoVerdictNow
    /\ UNCHANGED <<mvars, xvars>>

\* final_status == "Succeeded"
FinishSucceeded ==
    /\ LogsCollected
    /\ IF to_optimizing
       THEN /\ CallOptimize("run_logs")
            /\ Exit("final_succeeded", "optimize", FALSE, TRUE)
            /\ UNCHANGED result
       ELSE IF to_scaling
       THEN /\ jpc' = "scale"
            /\ full_logs' = "run_logs"
            /\ Exit("final_succeeded", "scale", FALSE, TRUE)
            /\ UNCHANGED result
       ELSE /\ Return(0, "run_logs", FALSE)
            /\ Exit("final_succeeded", "return", FALSE, TRUE)
            /\ UNCHANGED full_logs
    /\ UNCHANGED LogsFrame
    /\ NoVerdictNow
    /\ UNCHANGED <<mvars, xvars>>

\* final_status in objects.container_issues: return 1, message
FinishContainerIssue ==
    /\ LogsCollected
    /\ \E status \in container_issues :
         Exit("final_container_issue", "return", status = "OOMKilled", TRUE)
    /\ Return(1, "container_issue", FALSE)
    /\ UNCHANGED <<LogsFrame, full_logs>>
    /\ NoVerdictNow
    /\ UNCHANGED <<mvars, xvars>>

\* final_status == "Lost"
FinishLost ==
    /\ LogsCollected
    /\ IF to_optimizing
       THEN /\ CallOptimize("lost_logs")
            /\ Exit("final_lost", "optimize", FALSE, TRUE)
            /\ UNCHANGED result
       ELSE /\ Return(1, "lost", FALSE)
            /\ Exit("final_lost", "return", FALSE, TRUE)
            /\ UNCHANGED full_logs
    /\ UNCHANGED LogsFrame
    /\ NoVerdictNow
    /\ UNCHANGED <<mvars, xvars>>

\* any other final status: back to optimize when optimizing and the run
\* timed out or was unsatisfiable, else return 1 with the diagnostics
FinishFailed ==
    /\ LogsCollected
    /\ IF (to_optimizing /\ was_timeout') \/ (to_optimizing /\ was_unsatisfiable')
       THEN /\ CallOptimize("run_logs")
            /\ Exit("final_failed", "optimize", FALSE, TRUE)
            /\ UNCHANGED result
       ELSE /\ Return(1, "failure", TRUE)
            /\ Exit("final_failed", "return", FALSE, TRUE)
            /\ UNCHANGED full_logs
    /\ UNCHANGED LogsFrame
    /\ NoVerdictNow
    /\ UNCHANGED <<mvars, xvars>>

\* optimize_agent.run leaves context.optimize_result. Its best_fom is read
\* in one place, by scale right after the optimize it called has returned
\* 0, that is after a verdict other than RETRY; the model keeps the value
\* from that verdict to that read
NewBestFom == IF in_scale THEN best_fom' \in Foms ELSE best_fom' = best_fom

StudyButFom == <<sizes, size, scaling_attempts, cached_sizes, in_scale, sweep>>

\* optimize, verdict RETRY: job.delete(), update_manifest, deploy
OptimizeRetry ==
    /\ jpc = "optimize"
    /\ retries < MaxRetry
    /\ is_optimizing' = TRUE
    /\ live' = FALSE
    /\ manifest' \in Manifests
    /\ retries' = retries + 1
    /\ jpc' = "deploy"
    /\ full_logs' = "none"
    /\ NoExitNow
    /\ UNCHANGED <<Cfg, Study, Flags, Loop, agent_attempts, result>>
    /\ NoVerdictNow
    /\ UNCHANGED <<mvars, xvars>>

\* optimize, any other verdict: "context.is_optimizing = False; return 0,
\* full_logs"
OptimizeStop ==
    /\ jpc = "optimize"
    /\ is_optimizing' = FALSE
    /\ NewBestFom
    /\ Return(0, full_logs, FALSE)
    /\ full_logs' = "none"
    /\ NoExitNow
    /\ UNCHANGED <<Cfg, StudyButFom, Flags, Loop, manifest, agent_attempts,
                   live, retries>>
    /\ NoVerdictNow
    /\ UNCHANGED <<mvars, xvars>>

\* a scale that sets the study up again at every invocation
ScaleEnterStartsOver ==
    /\ jpc = "scale"
    /\ cached_sizes' = sizes
    /\ scaling_attempts' = <<>>
    /\ sweep' = IF cached_sizes # Unset THEN "dirty"
                ELSE IF sizes # <<>> THEN "clean" ELSE sweep
    /\ IF sizes = <<>>
       THEN /\ Return(0, full_logs, FALSE)
            /\ full_logs' = "none"
            /\ UNCHANGED <<sizes, size, in_scale>>
       ELSE /\ size' = Head(sizes)
            /\ sizes' = Tail(sizes)
            /\ in_scale' = TRUE
            /\ jpc' = "optimize"
            /\ UNCHANGED <<result, full_logs>>
    /\ NoExitNow
    /\ UNCHANGED <<Cfg, Flags, Loop, manifest, agent_attempts, is_optimizing,
                   live, best_fom, retries>>
    /\ NoVerdictNow
    /\ UNCHANGED <<mvars, xvars>>

\* scale, up to the first call of optimize
ScaleEnter ==
    /\ jpc = "scale"
    /\ cached_sizes' = IF cached_sizes = Unset THEN sizes ELSE cached_sizes
    /\ scaling_attempts' = IF cached_sizes = Unset THEN <<>> ELSE scaling_attempts
    /\ sweep' = IF cached_sizes # Unset THEN "dirty"
                ELSE IF sizes # <<>> THEN "clean" ELSE sweep
    /\ IF sizes = <<>>
       THEN /\ Return(0, full_logs, FALSE)
            /\ full_logs' = "none"
            /\ UNCHANGED <<sizes, size, in_scale>>
       ELSE /\ size' = Head(sizes)
            /\ sizes' = Tail(sizes)
            /\ in_scale' = TRUE
            /\ jpc' = "optimize"
            /\ UNCHANGED <<result, full_logs>>
    /\ NoExitNow
    /\ UNCHANGED <<Cfg, Flags, Loop, manifest, agent_attempts, is_optimizing,
                   live, best_fom, retries>>
    /\ NoVerdictNow
    /\ UNCHANGED <<mvars, xvars>>

\* a restore that puts the size at the end of the queue
RestoreSizeAtEnd(queue, current) == Append(queue, current)

\* scale: "context.sizes.insert(0, context.size)"
RestoreSize(queue, current) == <<current>> \o queue

\* scale: optimize came back with a non-zero exit code: the size goes back
\* to the front and the pair is returned
ScaleOptimizeFailed ==
    /\ jpc = "scale_ret"
    /\ result.rc # 0
    /\ is_optimizing' = FALSE
    /\ sizes' = RestoreSize(sizes, size)
    /\ in_scale' = FALSE
    /\ sweep' = "dirty"
    /\ jpc' = "run_step_ret"
    /\ NoExitNow
    /\ UNCHANGED <<Cfg, Flags, Loop, manifest, agent_attempts, size,
                   scaling_attempts, cached_sizes, best_fom, live, full_logs,
                   retries, result>>
    /\ NoVerdictNow
    /\ UNCHANGED <<mvars, xvars>>

\* scale: optimize came back with 0: record the best FOM of the size and
\* ask the scaling agent
ScaleOptimizeDone ==
    /\ jpc = "scale_ret"
    /\ result.rc = 0
    /\ scaling_attempts' = DictSet(scaling_attempts, size, best_fom)
    /\ best_fom' = 0
    /\ jpc' = "scaling_agent"
    /\ NoExitNow
    /\ UNCHANGED sweep
    /\ UNCHANGED <<Cfg, Flags, Loop, manifest, agent_attempts, is_optimizing,
                   sizes, size, cached_sizes, in_scale, live, full_logs,
                   retries, result>>
    /\ NoVerdictNow
    /\ UNCHANGED <<mvars, xvars>>

\* ScalingAgent.run: the verdict is STOP and the user does not confirm it:
\* update_scaling_size lets the user pick the size to try again
ScalingUserRejectsStop ==
    /\ jpc = "scaling_agent"
    /\ \E chosen \in SeqToSet(sizes) \cup {size} :
         /\ size' = chosen
         /\ scaling_attempts' = IF DictHas(scaling_attempts, chosen)
                                THEN DictDel(scaling_attempts, chosen)
                                ELSE scaling_attempts
         /\ sizes' = IF chosen \notin SeqToSet(sizes)
                     THEN <<chosen>> \o sizes ELSE sizes
    /\ sweep' = "dirty"
    /\ UNCHANGED <<Cfg, Flags, Loop, jpc, manifest, agent_attempts,
                   is_optimizing, cached_sizes, in_scale, best_fom, live,
                   full_logs, retries, result, fd_exit>>
    /\ NoVerdictNow
    /\ UNCHANGED <<mvars, xvars>>

\* a PROCEED that takes the next size without popping it
ScalingProceedKeepsQueue ==
    /\ jpc = "scaling_agent"
    /\ sizes # <<>>
    /\ scaling_result' = "PROCEED"
    /\ size' = Head(sizes)
    /\ sizes' = sizes
    /\ CallOptimize("run_logs")
    /\ result' = NoResult
    /\ UNCHANGED sweep
    /\ UNCHANGED <<Cfg, Flags, Loop, manifest, agent_attempts, is_optimizing,
                   scaling_attempts, cached_sizes, in_scale, best_fom, live,
                   retries, fd_exit>>
    /\ UNCHANGED <<mvars, xvars>>

\* scale: verdict PROCEED with sizes left: pop the next size and call
\* optimize again, with the log text scale was called with
ScalingProceed ==
    /\ jpc = "scaling_agent"
    /\ sizes # <<>>
    /\ scaling_result' = "PROCEED"
    /\ size' = Head(sizes)
    /\ sizes' = Tail(sizes)
    /\ CallOptimize("run_logs")
    /\ result' = NoResult
    /\ UNCHANGED sweep
    /\ UNCHANGED <<Cfg, Flags, Loop, manifest, agent_attempts, is_optimizing,
                   scaling_attempts, cached_sizes, in_scale, best_fom, live,
                   retries, fd_exit>>
    /\ UNCHANGED <<mvars, xvars>>

\* scale: 'elif decision == "PROCEED" and not context.sizes: decision = "STOP"'
final_decision(decision, queue) ==
    IF decision = "PROCEED" /\ queue = <<>> THEN "STOP" ELSE decision

\* scale: verdict STOP (confirmed), or PROCEED with no size left: restore
\* the cached sizes and return 0, final_log
ScalingStop ==
    /\ jpc = "scaling_agent"
    /\ \E decision \in {"STOP", "PROCEED"} :
         /\ final_decision(decision, sizes) = "STOP"
         /\ scaling_result' = decision
    /\ sizes' = cached_sizes
    /\ cached_sizes' = Unset
    /\ in_scale' = FALSE
    /\ sweep' = IF sweep = "clean" /\ sizes = <<>> THEN "done" ELSE "dirty"
    /\ jpc' = "run_step_ret"
    /\ UNCHANGED <<Cfg, Flags, Loop, manifest, agent_attempts, is_optimizing,
                   size, scaling_attempts, best_fom, live, full_logs, retries,
                   result, fd_exit>>
    /\ UNCHANGED <<mvars, xvars>>

\* run_step: deploy returned 0
StepDone ==
    /\ jpc = "run_step_ret"
    /\ result.rc = 0
    /\ jpc' = "done"
    /\ NoExitNow
    /\ UNCHANGED <<Cfg, Study, Flags, Loop, manifest, agent_attempts,
                   is_optimizing, live, full_logs, retries, result>>
    /\ NoVerdictNow
    /\ UNCHANGED <<mvars, xvars>>

\* GeminiAgent.reached_max_attempts
reached_max_attempts ==
    max_attempts # 0 /\ agent_attempts >= max_attempts

\* handle_failed_job: the limit is reached or the debug agent asked to go
\* back to the manager: hand the error to the manager, or exit.
\* context.is_managed() is fixed before the run and read here only, where
\* run_step ends, so its value is drawn at the read.
HandleFailedReturn ==
    /\ jpc = "run_step_ret"
    /\ result.rc # 0
    /\ \E return_to_manager \in BOOLEAN :
         reached_max_attempts \/ return_to_manager
    /\ \E is_managed \in BOOLEAN :
         IF is_managed
         THEN /\ result' = [rc |-> -1, kind |-> "error_message",
                            diag |-> result.diag]
              /\ jpc' = "done"
         ELSE /\ jpc' = "exit"
              /\ UNCHANGED result
    /\ NoExitNow
    /\ UNCHANGED <<Cfg, Study, Flags, Loop, manifest, agent_attempts,
                   is_optimizing, live, full_logs, retries>>
    /\ NoVerdictNow
    /\ UNCHANGED <<mvars, xvars>>

\* a retry that does not count itself
HandleFailedRetryKeepsCount ==
    /\ jpc = "run_step_ret"
    /\ result.rc # 0
    /\ ~reached_max_attempts
    /\ agent_attempts < MaxStepAttempts
    /\ agent_attempts' = agent_attempts
    /\ jpc' = "run_step"
    /\ result' = NoResult
    /\ NoExitNow
    /\ UNCHANGED <<Cfg, Study, Flags, Loop, manifest, is_optimizing, live,
                   full_logs, retries>>
    /\ NoVerdictNow
    /\ UNCHANGED <<mvars, xvars>>

\* handle_failed_job: "self.attempts += 1; return self.run_step(context)"
HandleFailedRetry ==
    /\ jpc = "run_step_ret"
    /\ result.rc # 0
    /\ ~reached_max_attempts
    /\ agent_attempts < MaxStepAttempts
    /\ agent_attempts' = agent_attempts + 1
    /\ jpc' = "run_step"
    /\ result' = NoResult
    /\ NoExitNow
    /\ UNCHANGED <<Cfg, Study, Flags, Loop, manifest, is_optimizing, live,
                   full_logs, retries>>
    /\ NoVerdictNow
    /\ UNCHANGED <<mvars, xvars>>

JNext ==
    \/ RunStep
    \/ DeployRaises
    \/ DeployInvalid
    \/ DeployApplyFails
    \/ DeployApplied
    \/ PollJobSucceeded
    \/ PollJobFailed
    \/ PollNoPod
    \/ PollPodGone
    \/ PollPodReady
    \/ PollPodWaiting
    \/ PollPodFatal
    \/ PollTimeout
    \/ LogsNoPod
    \/ FinishSucceeded
    \/ FinishContainerIssue
    \/ FinishLost
    \/ FinishFailed
    \/ OptimizeRetry
    \/ OptimizeStop
    \/ ScaleEnter
    \/ ScaleOptimizeFailed
    \/ ScaleOptimizeDone
    \/ ScalingUserRejectsStop
    \/ ScalingProceed
    \/ ScalingStop
    \/ StepDone
    \/ HandleFailedReturn
    \/ HandleFailedRetry

\* ------------------------------------------------------------------------
\* Part III - update_manifest (the patch step of OptimizationLoop)
\* ------------------------------------------------------------------------
\* calls of update_manifest made with one (patch, manifest) pair
MaxCalls == 2

\* what a manifest holds, as far as a patch is concerned
Fields == {"command", "problem_size", "resources", "env"}
\* the fields a patch may touch
Whitelist == {"resources", "env"}

\* a manifest: per field, the generated content (0) or other content (1)
ManifestTexts == [Fields -> {0, 1}]
Generated == [f \in Fields |-> 0]

\* context.optimize_result: the fields the oracle's patch asks to change,
\* with or without the "decision" and "reason" keys, given field by field
\* or as a whole manifest under the key "manifest"
Patches == [touch : SUBSET Fields, verdict_keys : BOOLEAN,
            as_manifest : BOOLEAN]

PInit ==
    /\ um_manifest = Generated
    /\ um_updates \in {u \in Patches : u.verdict_keys}
    /\ um_results = <<>>

\* update_manifest at rest (used while another part is checked)
PIdle ==
    /\ um_manifest = Generated
    /\ um_updates = [touch |-> {}, verdict_keys |-> FALSE,
                     as_manifest |-> FALSE]
    /\ um_results = <<>>

\* update_manifest: "del updates[key]" for decision and reason (in place);
\* with a "manifest" key the updates become the yaml block under it; the
\* prompt is rendered from the manifest and json.dumps(updates), ask_gemini
\* answers, and the yaml block of the answer is returned as it is: the
\* answer is any manifest text
UpdateManifest ==
    /\ Len(um_results) < MaxCalls
    /\ um_updates' = [um_updates EXCEPT !.verdict_keys = FALSE]
    /\ \E answer \in ManifestTexts : um_results' = Append(um_results, answer)
    /\ UNCHANGED um_manifest
    /\ UNCHANGED <<mvars, jvars, avars, lvars, cvars>>

PNext == UpdateManifest

\* ------------------------------------------------------------------------
\* Part IV - the run loops of the agents (BuildAgent.run,
\* kubernetes_job KubernetesJobAgent.run, FluxBatchAgent.run,
\* ScalingAgent.run)
\* ------------------------------------------------------------------------
\* failed builds / deployments / validations the environment produces in
\* one run
MaxFailures == 3
\* malformed answers the oracle gives in one run
MaxMalformed == 3
\* STOP answers the user turns down in one run of the scaling agent
MaxRejects == 2

\* the confirmation of a STOP by the user, which the scaling agent alone has
Confirm == <<ag_result, ag_stop, ag_rejects>>

\* the Job object in the cluster, which the kubernetes_job agent alone has
Cluster == <<ag_job, ag_return>>

\* kubernetes_job KubernetesJobAgent.deploy: its failure returns that come
\* before kubectl apply has worked (the manifest does not load, has no name,
\* has no containers, names another image, or kubectl apply fails)
BeforeApply == {"bad_yaml", "no_name", "no_containers", "wrong_image",
                "apply_failed"}

\* kubernetes_job KubernetesJobAgent.deploy: its failure returns that come
\* after kubectl apply has worked
AfterApply == {"job_failed", "start_timeout", "pod_never_ready",
               "failed_in_execution"}

\* kubernetes_job KubernetesJobAgent.deploy: whether the Job object is in the
\* cluster when deploy returns by "ret" (job: whether it was there at the
\* call). kubectl apply creates it, cleanup_job deletes it; the last
\* cleanup_job alone is under "if cleanup is not False".
deploy_leaves(ret, cleanup, job) ==
    CASE ret \in BeforeApply -> job
      [] ret \in {"job_failed", "start_timeout"} -> FALSE
      [] ret = "pod_never_ready" -> TRUE
      [] ret = "failed_in_execution" -> FALSE
      [] ret = "success" -> (cleanup = "False")

AInit ==
    /\ ag_kind \in {"build", "kubernetes_job", "flux-batch", "scaling"}
    /\ ag_max \in 0..MaxStepAttempts
    /\ ag_attempts = 0
    /\ ag_failed = 0
    /\ ag_reprompts = 0
    /\ ag_additional = "none"
    /\ ag_pc = "run"
    /\ ag_result = "none"
    /\ ag_stop = "none"
    /\ ag_rejects = 0
    /\ ag_job = FALSE
    /\ ag_return = "none"

\* the agents at rest (used while another part is checked)
AIdle ==
    /\ ag_kind = "none"
    /\ ag_max = 0
    /\ ag_attempts = 0
    /\ ag_failed = 0
    /\ ag_reprompts = 0
    /\ ag_additional = "none"
    /\ ag_pc = "done"
    /\ ag_result = "none"
    /\ ag_stop = "none"
    /\ ag_rejects = 0
    /\ ag_job = FALSE
    /\ ag_return = "none"

\* "self.attempts = self.attempts or 1"
BuildAttempts == IF ag_attempts = 0 THEN 1 ELSE ag_attempts

\* BuildAgent.run: the Dockerfile builds (return code 0): the result is
\* written and returned
BuildSucceeds ==
    /\ ag_kind = "build"
    /\ ag_pc = "run"
    /\ ag_attempts' = BuildAttempts
    /\ ag_pc' = "done"
    /\ UNCHANGED <<ag_kind, ag_max, ag_failed, ag_reprompts, ag_additional>>
    /\ UNCHANGED Confirm
    /\ UNCHANGED Cluster
    /\ UNCHANGED <<mvars, jvars, pvars, lvars, cvars>>

\* BuildAgent.run: the build fails: DebugAgent, "self.attempts += 1; return
\* self.run(context)"
BuildFails ==
    /\ ag_kind = "build"
    /\ ag_pc = "run"
    /\ ag_failed < MaxFailures
    /\ ag_attempts' = BuildAttempts + 1
    /\ ag_failed' = ag_failed + 1
    /\ UNCHANGED <<ag_kind, ag_max, ag_reprompts, ag_pc, ag_additional>>
    /\ UNCHANGED Confirm
    /\ UNCHANGED Cluster
    /\ UNCHANGED <<mvars, jvars, pvars, lvars, cvars>>

\* BuildAgent.build: "if not dockerfile: raise ValueError"
BuildRaises ==
    /\ ag_kind = "build"
    /\ ag_pc = "run"
    /\ ag_attempts' = BuildAttempts
    /\ ag_pc' = "raised"
    /\ UNCHANGED <<ag_kind, ag_max, ag_failed, ag_reprompts, ag_additional>>
    /\ UNCHANGED Confirm
    /\ UNCHANGED Cluster
    /\ UNCHANGED <<mvars, jvars, pvars, lvars, cvars>>

\* kubernetes_job KubernetesJobAgent.run: GEMINI_API_KEY is not set: sys.exit
DeployNoApiKey ==
    /\ ag_kind = "kubernetes_job"
    /\ ag_pc = "run"
    /\ ag_pc' = "exit"
    /\ UNCHANGED <<ag_kind, ag_max, ag_attempts, ag_failed, ag_reprompts,
                   ag_additional>>
    /\ UNCHANGED Confirm
    /\ UNCHANGED Cluster
    /\ UNCHANGED <<mvars, jvars, pvars, lvars, cvars>>

\* kubernetes_job KubernetesJobAgent.run: deploy returns 0
DeploySucceeds ==
    /\ ag_kind = "kubernetes_job"
    /\ ag_pc = "run"
    /\ ag_pc' = "done"
    /\ \E cleanup \in {"True", "False", "None"} :
           ag_job' = deploy_leaves("success", cleanup, ag_job)
    /\ ag_return' = "success"
    /\ UNCHANGED <<ag_kind, ag_max, ag_attempts, ag_failed, ag_reprompts,
                   ag_additional>>
    /\ UNCHANGED Confirm
    /\ UNCHANGED <<mvars, jvars, pvars, lvars, cvars>>

\* kubernetes_job KubernetesJobAgent.run: deploy fails: "self.attempts += 1;
\* ...; return self.run(context)"
DeployFails ==
    /\ ag_kind = "kubernetes_job"
    /\ ag_pc = "run"
    /\ ag_failed < MaxFailures
    /\ ag_attempts' = ag_attempts + 1
    /\ ag_failed' = ag_failed + 1
    /\ \E ret \in BeforeApply \cup AfterApply,
          cleanup \in {"True", "False", "None"} :
           /\ ag_job' = deploy_leaves(ret, cleanup, ag_job)
           /\ ag_return' = ret
    /\ UNCHANGED <<ag_kind, ag_max, ag_reprompts, ag_pc, ag_additional>>
    /\ UNCHANGED Confirm
    /\ UNCHANGED <<mvars, jvars, pvars, lvars, cvars>>

\* FluxBatchAgent.run: get_code_block or validate raises: the bare except
\* adds "You MUST return the variables back as a bash script" to the prompt
\* and calls run again
FluxMalformed ==
    /\ ag_kind = "flux-batch"
    /\ ag_pc = "run"
    /\ ag_reprompts < MaxMalformed
    /\ ag_reprompts' = ag_reprompts + 1
    /\ UNCHANGED <<ag_kind, ag_max, ag_attempts, ag_failed, ag_pc,
                   ag_additional>>
    /\ UNCHANGED Confirm
    /\ UNCHANGED Cluster
    /\ UNCHANGED <<mvars, jvars, pvars, lvars, cvars>>

\* FluxBatchAgent.run: the script validates (return code 0)
FluxValid ==
    /\ ag_kind = "flux-batch"
    /\ ag_pc = "run"
    /\ ag_pc' = "done"
    /\ UNCHANGED <<ag_kind, ag_max, ag_attempts, ag_failed, ag_reprompts,
                   ag_additional>>
    /\ UNCHANGED Confirm
    /\ UNCHANGED Cluster
    /\ UNCHANGED <<mvars, jvars, pvars, lvars, cvars>>

\* GeminiAgent.reached_max_attempts, for the agent of this part
ag_reached_max_attempts ==
    ag_max # 0 /\ ag_attempts >= ag_max

\* FluxBatchAgent.run: validation fails and the limit is reached or the
\* debug agent asks to go back to the manager: return code -1 to the
\* manager, or logger.exit
FluxInvalidReturn ==
    /\ ag_kind = "flux-batch"
    /\ ag_pc = "run"
    /\ \E return_to_manager \in BOOLEAN :
         ag_reached_max_attempts \/ return_to_manager
    /\ \E is_managed \in BOOLEAN :
         ag_pc' = IF is_managed THEN "returned" ELSE "exit"
    /\ UNCHANGED <<ag_kind, ag_max, ag_attempts, ag_failed, ag_reprompts,
                   ag_additional>>
    /\ UNCHANGED Confirm
    /\ UNCHANGED Cluster
    /\ UNCHANGED <<mvars, jvars, pvars, lvars, cvars>>

\* FluxBatchAgent.run: validation fails below the limit: "self.attempts += 1;
\* return self.run(context)"
FluxInvalidRetry ==
    /\ ag_kind = "flux-batch"
    /\ ag_pc = "run"
    /\ ~ag_reached_max_attempts
    /\ ag_failed < MaxFailures
    /\ ag_attempts' = ag_attempts + 1
    /\ ag_failed' = ag_failed + 1
    /\ UNCHANGED <<ag_kind, ag_max, ag_reprompts, ag_pc, ag_additional>>
    /\ UNCHANGED Confirm
    /\ UNCHANGED Cluster
    /\ UNCHANGED <<mvars, jvars, pvars, lvars, cvars>>

\* ScalingAgent.run: json.loads of the answer fails: "prompt += You MUST
\* return the variables back in json" and the while loop asks again
ScalingUnparsable ==
    /\ ag_kind = "scaling"
    /\ ag_pc = "run"
    /\ ag_reprompts < MaxMalformed
    /\ ag_reprompts' = ag_reprompts + 1
    /\ UNCHANGED <<ag_kind, ag_max, ag_attempts, ag_failed, ag_pc,
                   ag_additional>>
    /\ UNCHANGED Confirm
    /\ UNCHANGED Cluster
    /\ UNCHANGED <<mvars, jvars, pvars, lvars, cvars>>

\* ScalingAgent.run: the answer has no decision or no reason, or a decision
\* that is neither STOP nor PROCEED: "return self.run(context, prompt,
\* additional)"
ScalingInvalid ==
    /\ ag_kind = "scaling"
    /\ ag_pc = "run"
    /\ ag_reprompts < MaxMalformed
    /\ ag_reprompts' = ag_reprompts + 1
    /\ ag_additional' \in {"fields", "verdict"}
    /\ UNCHANGED <<ag_kind, ag_max, ag_attempts, ag_failed, ag_pc>>
    /\ UNCHANGED Confirm
    /\ UNCHANGED Cluster
    /\ UNCHANGED <<mvars, jvars, pvars, lvars, cvars>>

\* ScalingAgent.run: the decision is PROCEED: "context.scaling_result =
\* result; return context"
ScalingAnswers ==
    /\ ag_kind = "scaling"
    /\ ag_pc = "run"
    /\ ag_result' = "PROCEED"
    /\ ag_pc' = "done"
    /\ UNCHANGED <<ag_kind, ag_max, ag_attempts, ag_failed, ag_reprompts,
                   ag_additional, ag_stop, ag_rejects>>
    /\ UNCHANGED Cluster
    /\ UNCHANGED <<mvars, jvars, pvars, lvars, cvars>>

\* a STOP answer that is stored without asking the user
ScalingStopUnasked ==
    /\ ag_kind = "scaling"
    /\ ag_pc = "run"
    /\ ag_result' = "STOP"
    /\ ag_pc' = "done"
    /\ UNCHANGED <<ag_kind, ag_max, ag_attempts, ag_failed, ag_reprompts,
                   ag_additional, ag_stop, ag_rejects>>
    /\ UNCHANGED Cluster
    /\ UNCHANGED <<mvars, jvars, pvars, lvars, cvars>>

\* ScalingAgent.run: the decision is STOP: "stop_decision = confirm_stop()"
ScalingStopAnswered ==
    /\ ag_kind = "scaling"
    /\ ag_pc = "run"
    /\ ag_stop' = "asked"
    /\ ag_pc' = "confirm_stop"
    /\ UNCHANGED <<ag_kind, ag_max, ag_attempts, ag_failed, ag_reprompts,
                   ag_additional, ag_result, ag_rejects>>
    /\ UNCHANGED Cluster
    /\ UNCHANGED <<mvars, jvars, pvars, lvars, cvars>>

\* confirm_stop() returns True (yes): the STOP is stored and the context
\* returned
ScalingStopConfirmed ==
    /\ ag_kind = "scaling"
    /\ ag_pc = "confirm_stop"
    /\ ag_stop' = "yes"
    /\ ag_result' = "STOP"
    /\ ag_pc' = "done"
    /\ UNCHANGED <<ag_kind, ag_max, ag_attempts, ag_failed, ag_reprompts,
                   ag_additional, ag_rejects>>
    /\ UNCHANGED Cluster
    /\ UNCHANGED <<mvars, jvars, pvars, lvars, cvars>>

\* confirm_stop() returns False (no) or None (feedback): the user picks a
\* size (the step ScalingUserRejectsStop of Part II) and "return
\* self.run(context, prompt, additional)"
ScalingStopRejected ==
    /\ ag_kind = "scaling"
    /\ ag_pc = "confirm_stop"
    /\ ag_rejects < MaxRejects
    /\ ag_rejects' = ag_rejects + 1
    /\ \E answer \in {"no", "feedback"} :
         /\ ag_stop' = answer
         /\ ag_additional' = IF answer = "no" THEN "not_stop" ELSE "feedback"
    /\ ag_pc' = "run"
    /\ UNCHANGED <<ag_kind, ag_max, ag_attempts, ag_failed, ag_reprompts,
                   ag_result>>
    /\ UNCHANGED Cluster
    /\ UNCHANGED <<mvars, jvars, pvars, lvars, cvars>>

ANext ==
    \/ BuildSucceeds
    \/ BuildFails
    \/ BuildRaises
    \/ DeployNoApiKey
    \/ DeploySucceeds
    \/ DeployFails
    \/ FluxMalformed
    \/ FluxValid
    \/ FluxInvalidReturn
    \/ FluxInvalidRetry
    \/ ScalingUnparsable
    \/ ScalingInvalid
    \/ ScalingAnswers
    \/ ScalingStopAnswered
    \/ ScalingStopConfirmed
    \/ ScalingStopRejected

\* ------------------------------------------------------------------------
\* Part V - the poll loop of finish_deploy, statement by statement
\* ------------------------------------------------------------------------
\* "while not pod and tries < 10"
PodTries == 10

LInit ==
    /\ pl_pc = "status"
    /\ pl_i = 0
    /\ pl_tries = 0
    /\ pl_pod = FALSE
    /\ pl_optimizing \in BOOLEAN
    /\ pl_reads = 0
    /\ pl_cause = "none"
    /\ pl_cleanup \in BOOLEAN
    /\ pl_live = TRUE
    /\ pl_diag = "none"

\* the loop at rest (used while another part is checked)
LIdle ==
    /\ pl_pc = "idle"
    /\ pl_i = 0
    /\ pl_tries = 0
    /\ pl_pod = FALSE
    /\ pl_optimizing = FALSE
    /\ pl_reads = 0
    /\ pl_cause = "none"
    /\ pl_cleanup = FALSE
    /\ pl_live = FALSE
    /\ pl_diag = "none"

\* "diagnostics = self.get_diagnostics(obj, pod)", by whether the workload
\* exists when it is called
get_diagnostics(exists) == IF exists THEN "live" ELSE "gone"

\* the for loop has an iteration left
InIteration == pl_pc = "status" /\ pl_i < PollLimit

\* obj.get_status() reports succeeded > 0: break
ReadStatusSucceeded ==
    /\ InIteration
    /\ pl_reads' = pl_reads + 1
    /\ pl_pc' = "logs"
    /\ UNCHANGED <<pl_i, pl_tries, pl_pod, pl_optimizing, pl_cause>>
    /\ UNCHANGED <<pl_cleanup, pl_live, pl_diag>>
    /\ UNCHANGED <<mvars, jvars, pvars, avars, cvars>>

\* obj.get_status() reports failed > 0: diagnostics, cleanup, return 1
ReadStatusFailed ==
    /\ InIteration
    /\ pl_reads' = pl_reads + 1
    /\ pl_pc' = "returned"
    /\ pl_cause' = "job_failed"
    /\ UNCHANGED <<pl_i, pl_tries, pl_pod, pl_optimizing>>
    /\ pl_diag' = get_diagnostics(pl_live)
    /\ pl_live' = FALSE
    /\ UNCHANGED pl_cleanup
    /\ UNCHANGED <<mvars, jvars, pvars, avars, cvars>>

\* obj.get_status() reports neither: "tries = 0" and on to the pod lookup
ReadStatusActive ==
    /\ InIteration
    /\ pl_reads' = pl_reads + 1
    /\ pl_tries' = 0
    /\ pl_pc' = "lookup"
    /\ UNCHANGED <<pl_i, pl_pod, pl_optimizing, pl_cause>>
    /\ UNCHANGED <<pl_cleanup, pl_live, pl_diag>>
    /\ UNCHANGED <<mvars, jvars, pvars, avars, cvars>>

\* a lookup that goes on whatever tries is
CanLookupAgain == ~pl_pod

\* "while not pod and tries < 10"
CanLookup == ~pl_pod /\ pl_tries < PodTries

\* "pod = obj.get_pod(); time.sleep(5); tries += 1", no pod or a pod
GetPod ==
    /\ pl_pc = "lookup"
    /\ CanLookup
    /\ pl_pod' \in BOOLEAN
    /\ pl_tries' = pl_tries + 1
    /\ UNCHANGED <<pl_pc, pl_i, pl_optimizing, pl_reads, pl_cause>>
    /\ UNCHANGED <<pl_cleanup, pl_live, pl_diag>>
    /\ UNCHANGED <<mvars, jvars, pvars, avars, cvars>>

\* the while loop is over
LookupOver ==
    /\ pl_pc = "lookup"
    /\ ~CanLookup
    /\ pl_pc' = "inspect"
    /\ UNCHANGED <<pl_i, pl_tries, pl_pod, pl_optimizing, pl_reads, pl_cause>>
    /\ UNCHANGED <<pl_cleanup, pl_live, pl_diag>>
    /\ UNCHANGED <<mvars, jvars, pvars, avars, cvars>>

\* the pod is Running with all containers ready, or Succeeded: break
InspectReady ==
    /\ pl_pc = "inspect"
    /\ pl_pod
    /\ pl_pc' = "logs"
    /\ UNCHANGED <<pl_i, pl_tries, pl_pod, pl_optimizing, pl_reads, pl_cause>>
    /\ UNCHANGED <<pl_cleanup, pl_live, pl_diag>>
    /\ UNCHANGED <<mvars, jvars, pvars, avars, cvars>>

\* has_failed_container gives a reason: cleanup, and optimize (OOMKilled
\* while optimizing) or return 1
InspectFatal ==
    /\ pl_pc = "inspect"
    /\ pl_pod
    /\ \E reason \in container_issues :
         IF reason = "OOMKilled" /\ pl_optimizing
         THEN pl_pc' = "optimize" /\ UNCHANGED pl_diag
         ELSE pl_pc' = "returned" /\ pl_diag' = get_diagnostics(pl_live)
    /\ pl_cause' = "pod_fatal"
    /\ UNCHANGED <<pl_i, pl_tries, pl_pod, pl_optimizing, pl_reads>>
    /\ pl_live' = FALSE
    /\ UNCHANGED pl_cleanup
    /\ UNCHANGED <<mvars, jvars, pvars, avars, cvars>>

\* no pod, a pod whose info is gone ("pod = None"), or a pod that is
\* neither ready nor failed: "time.sleep(5)" and the next iteration
InspectWaiting ==
    /\ pl_pc = "inspect"
    /\ pl_pod' \in (IF pl_pod THEN BOOLEAN ELSE {FALSE})
    /\ pl_i' = pl_i + 1
    /\ pl_pc' = "status"
    /\ UNCHANGED <<pl_tries, pl_optimizing, pl_reads, pl_cause>>
    /\ UNCHANGED <<pl_cleanup, pl_live, pl_diag>>
    /\ UNCHANGED <<mvars, jvars, pvars, avars, cvars>>

\* the else branch of the for loop: cleanup, diagnostics, return 1
LoopExhausted ==
    /\ pl_pc = "status"
    /\ pl_i >= PollLimit
    /\ pl_pc' = "returned"
    /\ pl_cause' = "timeout"
    /\ UNCHANGED <<pl_i, pl_tries, pl_pod, pl_optimizing, pl_reads>>
    /\ pl_live' = FALSE
    /\ pl_diag' = get_diagnostics(pl_live')
    /\ UNCHANGED pl_cleanup
    /\ UNCHANGED <<mvars, jvars, pvars, avars, cvars>>

\* after the loop, pod is None (the job succeeded before a pod was resolved):
\* pod.wait_for_ready() raises AttributeError
StreamLogsRaises ==
    /\ pl_pc = "logs"
    /\ ~pl_pod
    /\ pl_pc' = "raised"
    /\ UNCHANGED <<pl_i, pl_tries, pl_pod, pl_optimizing, pl_reads, pl_cause>>
    /\ UNCHANGED <<pl_cleanup, pl_live, pl_diag>>
    /\ UNCHANGED <<mvars, jvars, pvars, avars, cvars>>

\* after the loop: the logs are streamed, the final status is read,
\* diagnostics are taken and "cleanup(callback, obj)" deletes the workload
\* before the status is looked at
StreamLogs ==
    /\ pl_pc = "logs"
    /\ pl_pod
    /\ pl_diag' = get_diagnostics(pl_live)
    /\ pl_live' = FALSE
    /\ pl_pc' = "final_status"
    /\ UNCHANGED <<pl_i, pl_tries, pl_pod, pl_optimizing, pl_reads, pl_cause>>
    /\ UNCHANGED pl_cleanup
    /\ UNCHANGED <<mvars, jvars, pvars, avars, cvars>>

LNext ==
    \/ ReadStatusSucceeded
    \/ ReadStatusFailed
    \/ ReadStatusActive
    \/ GetPod
    \/ LookupOver
    \/ InspectReady
    \/ InspectFatal
    \/ InspectWaiting
    \/ LoopExhausted
    \/ StreamLogsRaises
    \/ StreamLogs

\* ------------------------------------------------------------------------
\* Part VI - the Context of one Orchestrator run (ManagerAgent.run)
\* ------------------------------------------------------------------------
\* largest value a key of the context takes (0 stands for an absent key)
MaxValue == 2

\* the per-step fields and the state that accumulates over the run
Transient == {"result", "error", "return_code"}
Accumulated == {"logs", "metadata", "foms"}
ContextKeys == Transient \cup Accumulated
Contexts == [ContextKeys -> 0..MaxValue]

\* a reset that empties the context
reset_all(data) == [k \in ContextKeys |-> 0]

\* context.reset()
reset(data) == [k \in ContextKeys |-> IF k \in Transient THEN 0 ELSE data[k]]

\* no get yet, or a get nothing looks at any more
NoGet == [memory |-> 0, returned |-> 0]

\* Context.load(key): the file of the key, when there is one, is read and
\* written to data[key]
load(data, key, file) ==
    IF file = 0 THEN data ELSE [data EXCEPT ![key] = file]

\* Context(context): the workspace is the directory handed in, which may
\* hold a file for the key, or one made with tempfile.mkdtemp()
CInit ==
    /\ cx_pc = "iter"
    /\ cx_data = [k \in ContextKeys |-> 0]
    /\ cx_keep \in BOOLEAN
    /\ cx_workspace = TRUE
    /\ cx_cleared = {}
    /\ cx_file \in 0..MaxValue
    /\ cx_got = NoGet

\* no run (used while another part is checked)
CIdle ==
    /\ cx_pc = "idle"
    /\ cx_data = [k \in ContextKeys |-> 0]
    /\ cx_keep = FALSE
    /\ cx_workspace = FALSE
    /\ cx_cleared = {}
    /\ cx_file = 0
    /\ cx_got = NoGet

\* "context = step.execute(context)": the agent leaves any context behind
ExecuteStep ==
    /\ cx_pc = "iter"
    /\ cx_data' \in Contexts
    /\ UNCHANGED cx_file
    /\ cx_pc' = "stepped"
    /\ cx_cleared' = {}
    /\ cx_got' = NoGet
    /\ UNCHANGED <<cx_keep, cx_workspace>>
    /\ UNCHANGED <<mvars, jvars, pvars, avars, lvars>>

\* 'tracker.append([..., context.get("result")])': custom_get calls
\* self.load(key) and then returns data[key]
GetResult ==
    /\ cx_pc = "stepped"
    /\ cx_data' = load(cx_data, "result", cx_file)
    /\ cx_got' = [memory |-> cx_data["result"], returned |-> cx_data'["result"]]
    /\ cx_pc' = "executed"
    /\ UNCHANGED <<cx_keep, cx_workspace, cx_cleared, cx_file>>
    /\ UNCHANGED <<mvars, jvars, pvars, avars, lvars>>

\* step.execute raises: run_tasks is left through the exception
ExecuteRaises ==
    /\ cx_pc = "iter"
    /\ cx_pc' = "raising"
    /\ cx_cleared' = {}
    /\ UNCHANGED <<cx_data, cx_keep, cx_workspace, cx_file, cx_got>>
    /\ UNCHANGED <<mvars, jvars, pvars, avars, lvars>>

\* the step succeeded, or failed and a recovery step was inserted:
\* "context.reset()" and the next iteration
ResetContext ==
    /\ cx_pc = "executed"
    /\ cx_data' = reset(cx_data)
    /\ cx_cleared' = {k \in Transient : cx_data[k] # 0}
    /\ cx_pc' = "iter"
    /\ cx_got' = NoGet
    /\ UNCHANGED <<cx_keep, cx_workspace, cx_file>>
    /\ UNCHANGED <<mvars, jvars, pvars, avars, lvars>>

\* the loop is left: the plan is done or the maximum attempts are reached
\* (top of the loop), or no recovery step could be determined (after a step)
LeaveLoop ==
    /\ cx_pc \in {"iter", "executed"}
    /\ cx_pc' = "after_loop"
    /\ cx_cleared' = {}
    /\ cx_got' = NoGet
    /\ UNCHANGED <<cx_data, cx_keep, cx_workspace, cx_file>>
    /\ UNCHANGED <<mvars, jvars, pvars, avars, lvars>>

\* manager/agent.py run: "try: run_tasks ... except Exception: print", and
\* run is over; nothing is done to the workspace
RunReturns ==
    /\ cx_pc \in {"after_loop", "raising"}
    /\ cx_pc' = "ended"
    /\ UNCHANGED <<cx_data, cx_keep, cx_workspace, cx_cleared, cx_file,
                   cx_got>>
    /\ UNCHANGED <<mvars, jvars, pvars, avars, lvars>>

\* manager.py run: "finally: print(... {workspace} ...)" reads a name that
\* is not defined and raises before context.cleanup() is called
RunFinallyRaises ==
    /\ cx_pc \in {"after_loop", "raising"}
    /\ cx_pc' = "raised"
    /\ UNCHANGED <<cx_data, cx_keep, cx_workspace, cx_cleared, cx_file,
                   cx_got>>
    /\ UNCHANGED <<mvars, jvars, pvars, avars, lvars>>

CNext ==
    \/ ExecuteStep
    \/ GetResult
    \/ ExecuteRaises
    \/ ResetContext
    \/ LeaveLoop
    \/ RunReturns
    \/ RunFinallyRaises

\* ------------------------------------------------------------------------
\* Specifications
\* ------------------------------------------------------------------------
vars == <<mvars, jvars, xvars>>

XIdle == PIdle /\ AIdle /\ LIdle /\ CIdle

Init == MInit /\ JIdle /\ XIdle
Next == MNext
Spec == Init /\ [][Next]_vars
\* run_tasks is sequential code: while an iteration or the report is left to
\* do, it is done
LiveSpec == Init /\ [][Next]_vars /\ WF_vars(Next)

JobInit == MIdle /\ JInit /\ XIdle
JobNext == JNext
JobSpec == JobInit /\ [][JobNext]_vars

PatchInit == MIdle /\ JIdle /\ PInit /\ AIdle /\ LIdle /\ CIdle
PatchNext == PNext
PatchSpec == PatchInit /\ [][PatchNext]_vars

AgentInit == MIdle /\ JIdle /\ PIdle /\ AInit /\ LIdle /\ CIdle
AgentNext == ANext
AgentSpec == AgentInit /\ [][AgentNext]_vars

PollInit == MIdle /\ JIdle /\ PIdle /\ AIdle /\ LInit /\ CIdle
PollNext == LNext
PollSpec == PollInit /\ [][PollNext]_vars

ContextInit == MIdle /\ JIdle /\ PIdle /\ AIdle /\ LIdle /\ CInit
ContextNext == CNext
ContextSpec == ContextInit /\ [][ContextNext]_vars

\* ------------------------------------------------------------------------
\* Properties of the Orchestrator (checked under Spec)
\* ------------------------------------------------------------------------
LastEntry(t) == t[Len(t)]
Executed == Len(tracker') = Len(tracker) + 1

\* C1: a step that returns exit code 0 at index i moves the index to exactly
\* i+1, and no two executions of an agent see the same attempt count.
C1_SuccessAdvancesByOne ==
    /\ [][(Executed /\ LastEntry(tracker').rc = 0)
            => current_step_index' = current_step_index + 1]_vars
    /\ [](\A i, j \in DOMAIN tracker :
            (i # j /\ tracker[i].agent = tracker[j].agent)
                => tracker[i].attempt # tracker[j].attempt)

\* C1 witness: one step was executed twice (failed, then succeeded after its
\* corrective step) and the index moved past it.
C1_Witness ==
    \E i, j \in DOMAIN tracker :
        /\ i < j
        /\ tracker[i].id = tracker[j].id
        /\ tracker[j].rc = 0
        /\ j = Len(tracker)
        /\ current_step_index = tracker[j].index + 1

\* C2 (as claimed): a step that declares a maximum N runs only while its
\* agent's counter is below N, and the max-attempts abort happens only once
\* the counter has reached N.
C2_BudgetRespected ==
    /\ \A i \in DOMAIN tracker :
          tracker[i].max # NoMaximum => tracker[i].attempt - 1 < tracker[i].max
    /\ abort_reason = "max_attempts"
          => attempts[CurrentStep.agent] >= CurrentStep.attempts

\* C3: the index never decreases, and the first step executed after an
\* insertion is the inserted corrective step.
C3_CorrectiveRunsNext ==
    /\ [][current_step_index' >= current_step_index]_vars
    /\ [][(Executed /\ corrective # 0)
            => LastEntry(tracker').id = corrective]_vars

\* C3 witness: a corrective step ran right after the failure it answers, at
\* the index of the failed step.
C3_Witness ==
    \E i \in DOMAIN tracker :
        /\ i + 1 \in DOMAIN tracker
        /\ tracker[i].rc # 0
        /\ tracker[i + 1].id # tracker[i].id
        /\ tracker[i + 1].id > tracker[i].id
        /\ tracker[i + 1].index = tracker[i].index

\* C4 (as claimed): every step of the Plan names a registered agent, also
\* right after an insertion.
C4_PlanResolvable ==
    \A i \in DOMAIN plan : plan[i].agent \in Registered

\* C5: success is reported only when the index equals the plan length and
\* every step of the final plan has an execution with exit code 0; every
\* abort is reported as a failure.
C5_NoSilentSuccess ==
    /\ outcome = "success" =>
          /\ current_step_index = Len(plan)
          /\ abort_reason = "none"
          /\ \A i \in DOMAIN plan : \E k \in DOMAIN tracker :
                tracker[k].id = plan[i].id /\ tracker[k].rc = 0
    /\ (pc = "done" /\ abort_reason # "none") => outcome = "failed"
    /\ pc = "raised" => outcome = "none"

\* C5 witness: a run that needed a corrective step reported success.
C5_Witness ==
    /\ outcome = "success"
    /\ \E k \in DOMAIN tracker : tracker[k].rc # 0

\* C6 (as claimed): the recovery router is asked only for a step whose
\* attempt budget is used up.
C6_RouterOnlyOnExhaustion ==
    \A i \in DOMAIN tracker :
        tracker[i].router =>
            (tracker[i].max # NoMaximum /\ tracker[i].attempt >= tracker[i].max)

\* ------------------------------------------------------------------------
\* Properties of the WorkloadController (checked under JobSpec)
\* ------------------------------------------------------------------------

\* C7 (as claimed): when the poll loop is left in its first iteration because
\* the job reports succeeded > 0, with no pod resolved, finish_deploy returns
\* (0, logs) with the log text of the run.
C7_FirstPollSuccessReturnsLogs ==
    (fd_exit.cause \in {"no_pod", "final_succeeded"}
        /\ fd_exit.first /\ ~fd_exit.pod)
      => /\ fd_exit.how = "return"
         /\ result.rc = 0
         /\ result.kind = "run_logs"

\* C8 (as claimed): an exit of finish_deploy for a workload whose pod was
\* OOM-killed while is_optimizing is true always goes into optimize, and the
\* log text handed over is the OOM note; it never returns a failure.
C8_OomWhileOptimizingRerouted ==
    (fd_exit.oom /\ fd_exit.optimizing)
      => /\ fd_exit.how = "optimize"
         /\ jpc = "optimize"
         /\ full_logs = "oom_note"

\* C9: when scale returns a non-zero exit code because optimize failed, the
\* size under evaluation is put back as the first element of context.sizes,
\* the sizes after it are the queue as it was, and the pair that optimize
\* returned is what scale returns.
C9_FailedSizeBackAtHead ==
    [][(jpc = "scale_ret" /\ result.rc # 0)
         => /\ sizes' # <<>>
            /\ Head(sizes') = size
            /\ Tail(sizes') = sizes
            /\ size' = size
            /\ result' = result
            /\ jpc' = "run_step_ret"]_vars

\* C9 witness: scale has returned a failure in the middle of a study (the
\* cached list is still set), the failed size is at the head and another
\* size follows it.
C9_Witness ==
    /\ jpc = "run_step_ret"
    /\ result.rc # 0
    /\ cached_sizes # Unset
    /\ ~in_scale
    /\ Len(sizes) >= 2
    /\ Head(sizes) = size

\* C10: when the job reports failed > 0 and no pod has been resolved,
\* finish_deploy returns exit code 1 with a message that carries the
\* diagnostics, and the workload is deleted when it returns.
C10_JobFailedReturnsDiagnostics ==
    (fd_exit.cause = "job_failed" /\ ~fd_exit.pod)
      => /\ fd_exit.how = "return"
         /\ result.rc = 1
         /\ result.kind = "job_failed"
         /\ result.diag
         /\ fd_exit.deleted
         /\ ~live

\* C10 witness: the job failed in the first poll, before any pod lookup.
C10_Witness ==
    /\ fd_exit.cause = "job_failed"
    /\ fd_exit.first
    /\ ~fd_exit.pod
    /\ result.rc = 1
    /\ ~live

\* C11: when the poll loop runs out (the job never terminal, the pod never
\* ready and never fatal), finish_deploy returns exit code 1 with the timeout
\* message, and the message carries the diagnostics.
C11_TimeoutReturnsDiagnostics ==
    (fd_exit.cause = "timeout")
      => /\ fd_exit.how = "return"
         /\ result.rc = 1
         /\ result.kind = "timeout"
         /\ result.diag

\* C11 witness: the loop ran out with a pod resolved and still waiting.
C11_Witness ==
    /\ fd_exit.cause = "timeout"
    /\ fd_exit.pod
    /\ ~fd_exit.first
    /\ result.rc = 1
    /\ result.kind = "timeout"

\* keys of context.scaling_attempts, in insertion order
Keys(d) == [k \in DOMAIN d |-> d[k].size]

\* C12: a study over distinct sizes s1..sn in which every optimize returned
\* 0, every verdict before the last size was PROCEED and the study stopped
\* after sn returns exit code 0, and context.scaling_attempts holds exactly
\* n entries, keyed s1..sn in that order, each with a figure of merit.
\* (context.sizes is restored to the list the study started with.)
C12_HistoryKeyedInOrder ==
    sweep = "done"
      => /\ result.rc = 0
         /\ Keys(scaling_attempts) = sizes
         /\ \A k \in DOMAIN scaling_attempts : scaling_attempts[k].fom \in Foms

\* C12 witness: a clean study over two sizes has returned.
C12_Witness ==
    /\ sweep = "done"
    /\ jpc = "run_step_ret"
    /\ Len(sizes) >= 2
    /\ Len(scaling_attempts) = Len(sizes)

\* C13 (as claimed): deploy hands every error back as a pair; no exception
\* leaves deploy / finish_deploy.
C13_DeployNeverRaises ==
    jpc # "raised"

\* C14 (as claimed): once deploy has acted on a well-formed manifest, the
\* image of its first container is the expected one: a manifest with another
\* image exists only before deploy looks at it.
C14_ImageMismatchFixed ==
    (manifest.shape = "ok" /\ manifest.image # "expected") => jpc = "deploy"

\* C15: when job.apply fails, deploy returns a non-zero exit code with the
\* apply output at once: no poll, no pod lookup, no log collection, no
\* delete, and was_timeout / was_unsatisfiable are left as they were.
C15_ApplyFailureReturnsAtOnce ==
    [][(jpc = "deploy" /\ result'.kind = "apply_error")
         => /\ result'.rc # 0
            /\ ~result'.diag
            /\ jpc' \in {"run_step_ret", "scale_ret"}
            /\ UNCHANGED <<was_timeout, was_unsatisfiable>>
            /\ UNCHANGED <<poll_i, pod, broke, live, full_logs, manifest>>
            /\ fd_exit' = NoExit]_vars

\* C15 witness: apply failed on a resubmission, after an earlier run had set
\* one of the flags.
C15_Witness ==
    /\ result.kind = "apply_error"
    /\ result.rc # 0
    /\ was_timeout \/ was_unsatisfiable
    /\ ~live
    /\ fd_exit = NoExit

\* ------------------------------------------------------------------------
\* Properties of update_manifest (checked under PatchSpec)
\* ------------------------------------------------------------------------

\* C16 (as claimed): the manifest that is resubmitted after a RETRY differs
\* from the previous one in whitelisted fields only; the primary command and
\* the problem size are the same, whatever the patch holds.
C16_OnlyWhitelistedFieldsChange ==
    \A k \in DOMAIN um_results :
        \A f \in Fields \ Whitelist : um_results[k][f] = um_manifest[f]

\* C17 (as claimed): two calls of update_manifest with the same patch and
\* the same manifest return the same manifest.
C17_UpdateManifestDeterministic ==
    \A j, k \in DOMAIN um_results : um_results[j] = um_results[k]

\* ------------------------------------------------------------------------
\* Properties of the agents' run loops (checked under AgentSpec)
\* ------------------------------------------------------------------------

\* C18 (as claimed): an agent configured with a maximum number of attempts
\* does not run again once that many attempts have failed: the failed
\* attempts of one run never exceed the maximum.
C18_InternalAttemptsBounded ==
    (ag_kind \in {"build", "kubernetes_job"} /\ ag_max # 0)
        => ag_failed <= ag_max

\* C19 (as claimed): malformed answers are answered with a corrective
\* prompt a fixed number of times only, after which the step fails: the
\* prompts sent again in one run stay below the number of malformed answers
\* the oracle is able to give (MaxMalformed), whatever the fixed number is.
C19_RepromptsBounded ==
    ag_reprompts < MaxMalformed

\* ------------------------------------------------------------------------
\* Properties of the poll loop (checked under PollSpec)
\* ------------------------------------------------------------------------

\* C20: the job status is read at most 30 times; within one iteration
\* get_pod is called at most 10 times and only while no pod is resolved;
\* and once the last iteration has ended without a terminal or ready state
\* the only thing finish_deploy does is return the timeout.
C20_PollLoopBounded ==
    /\ [](pl_reads <= PollLimit /\ pl_tries <= PodTries /\ pl_i <= PollLimit)
    /\ [](pl_cause = "timeout" => (pl_reads = PollLimit /\ pl_pc = "returned"))
    /\ [][pl_tries' = pl_tries + 1 => ~pl_pod]_vars
    /\ [][(pl_pc = "status" /\ pl_i = PollLimit) => pl_cause' = "timeout"]_vars

\* C20 witness: the timeout was returned after 30 reads, and the last
\* iteration used all 10 lookups without finding a pod.
C20_Witness ==
    /\ pl_pc = "returned"
    /\ pl_cause = "timeout"
    /\ pl_reads = PollLimit
    /\ pl_tries = PodTries
    /\ ~pl_pod

\* ------------------------------------------------------------------------
\* Properties of the attempt counters (checked under Spec)
\* ------------------------------------------------------------------------
\* executions of steps that name the agent, original or corrective
Executions(name) ==
    Cardinality({k \in DOMAIN tracker : tracker[k].agent = name})

\* executions of steps that name the agent and returned a non-zero code
Failures(name) ==
    Cardinality({k \in DOMAIN tracker :
                    tracker[k].agent = name /\ tracker[k].rc # 0})

\* C21: the attempt counters are keyed by agent name for the whole run: no
\* step of run_tasks lowers or resets a counter (splicing a corrective step
\* in included), and the counter of an agent stands for the executions of
\* all the steps that name it, original or corrective.
C21_CountersKeyedByAgent ==
    /\ [][\A a \in AgentNames : attempts'[a] >= attempts[a]]_vars
    /\ [](\A a \in AgentNames : attempts[a] = Executions(a))

\* C21 witness: an original step and a corrective step of the same agent
\* have both run and the agent's counter is 2, and a corrective step for
\* another agent has been spliced in as well.
C21_Witness ==
    \E j, k \in DOMAIN tracker :
        /\ j < k
        /\ tracker[j].agent = tracker[k].agent
        /\ tracker[j].id <= MaxPlan
        /\ tracker[k].id > MaxPlan
        /\ attempts[tracker[j].agent] = 2
        /\ \E n \in DOMAIN plan :
              plan[n].id > MaxPlan /\ plan[n].agent # tracker[j].agent

\* C22: only failed executions use up the budget: the counter of an agent
\* is the number of its executions that returned a non-zero exit code.
C22_SuccessLeavesCounter ==
    \A a \in AgentNames : attempts[a] = Failures(a)

\* C25: with cleanup disabled the workload is left on the cluster after its
\* terminal outcome.
C25_WorkloadKeptWithoutCleanup ==
    (pl_pc \in {"returned", "optimize", "final_status"} /\ ~pl_cleanup)
      => pl_live

\* ------------------------------------------------------------------------
\* Properties of the Context (checked under ContextSpec)
\* ------------------------------------------------------------------------
\* the run of the Orchestrator is over, normally or by an exception
RunOver == cx_pc \in {"ended", "raised"}

\* C26: on every exit path of the run the workspace directory is removed,
\* unless the keep flag is set.
C26_WorkspaceRemovedAtEnd ==
    (RunOver /\ ~cx_keep) => ~cx_workspace

C23_LostNeverEscalated ==
    (jpc = "run_step_ret" /\ result.kind = "lost")
      => ~ENABLED HandleFailedReturn

\* C24: once optimize has been entered, context.is_optimizing stays true:
\* no step taken in optimize, or with the flag set, leaves it false.
C24_OptimizingSticky ==
    [][(jpc = "optimize" \/ is_optimizing) => is_optimizing']_vars

\* one dict is the other with entries added at the end
Extends(new, old) ==
    /\ Len(new) >= Len(old)
    /\ \A k \in DOMAIN old : new[k] = old[k]

\* the sweep halts as on a STOP verdict: the cached sizes are restored and
\* scale returns exit code 0
SweepHalts ==
    /\ jpc' = "run_step_ret"
    /\ result'.rc = 0
    /\ ~in_scale'
    /\ sizes' = cached_sizes
    /\ cached_sizes' = Unset

\* the scaling agent has answered and scale acts on the verdict
ScaleActsOn(decision) ==
    /\ jpc = "scaling_agent"
    /\ jpc' # "scaling_agent"
    /\ scaling_result' = decision

\* C28: a PROCEED verdict with sizes remaining pops the next size from the
\* front of the queue and goes on with the sweep (optimize is called for
\* it); a PROCEED verdict with no size remaining does what a STOP verdict
\* does: the sweep halts and scale returns exit code 0.
C28_ProceedAdvancesOrStops ==
    [][/\ ScaleActsOn("PROCEED") =>
            IF sizes # <<>>
            THEN /\ size' = Head(sizes)
                 /\ sizes' = Tail(sizes)
                 /\ jpc' = "optimize"
                 /\ in_scale'
            ELSE SweepHalts
       /\ ScaleActsOn("STOP") => SweepHalts]_vars

\* C28 witness: a sweep over two sizes in which the first PROCEED moved on
\* to the second size and the second PROCEED, with no size left, ended the
\* sweep with exit code 0.
C28_Witness ==
    /\ jpc = "run_step_ret"
    /\ scaling_result = "PROCEED"
    /\ result.rc = 0
    /\ ~in_scale
    /\ Len(scaling_attempts) = 2
    /\ Len(sizes) = 2
    /\ sweep = "done"

\* C29: while a scaling study is under way (the sizes are cached),
\* context.scaling_attempts only grows: no entry is removed or overwritten.
C29_ScalingAttemptsAppendOnly ==
    [][(cached_sizes # Unset /\ cached_sizes' # Unset)
         => Extends(scaling_attempts', scaling_attempts)]_vars

\* C30: exit code 0 is returned only for a workload whose final status was
\* Succeeded: the text returned with a 0 is never the note of an OOM kill
\* or of a lost job.
C30_SuccessOnlyAfterSucceeded ==
    result.rc = 0 => result.kind \notin {"oom_note", "lost_logs"}


\* ------------------------------------------------------------------------
\* Properties of the diagnostics of finish_deploy (checked under PollSpec)
\* ------------------------------------------------------------------------
\* finish_deploy returned a failure, or is past its cleanup with the final
\* status still to be looked at
FailurePath ==
    \/ pl_pc = "returned" /\ pl_cause \in {"job_failed", "pod_fatal", "timeout"}
    \/ pl_pc = "final_status"

\* C31: on every failure path of finish_deploy (job failed, fatal pod
\* condition, poll timeout, non-succeeded final status) the diagnostics
\* were collected while the workload still existed, that is before it was
\* deleted.
C31_DiagnosticsBeforeDelete ==
    FailurePath => pl_diag = "live"


\* ------------------------------------------------------------------------
\* Properties of the workloads of one controller (checked under JobSpec)
\* ------------------------------------------------------------------------
\* C32: at most one workload of the controller is live: whenever apply is
\* about to be invoked (first deploy, retry after a failed deploy, optimize
\* RETRY, next size of a study) the workload applied before is deleted, and
\* a successful apply starts from a cluster without it.
C32_OneLiveWorkload ==
    /\ [](jpc \in {"run_step", "deploy"} => ~live)
    /\ [][(jpc = "deploy" /\ live') => ~live]_vars

\* C32 witness: a workload is live that was applied after an optimize RETRY
\* and after a retry of the step, inside a scaling study.
C32_Witness ==
    /\ jpc = "poll"
    /\ live
    /\ retries = 1
    /\ agent_attempts = 1
    /\ DictHas(scaling_attempts, 1)


\* ------------------------------------------------------------------------
\* Properties of the optimization loop (checked under JobSpec)
\* ------------------------------------------------------------------------
\* a pair is handed back to the caller of deploy / optimize
Returns == jpc \notin {"run_step_ret", "scale_ret"}
           /\ jpc' \in {"run_step_ret", "scale_ret"}

\* C33: the optimization loop has no cap of its own. Every verdict of the
\* oracle is either RETRY, which resubmits once more (one more deploy, after
\* the delete), or another verdict, which returns exit code 0 without a
\* resubmission; a resubmitted run whose final status is Succeeded goes
\* back to the oracle; and while optimizing, exit code 0 is returned by
\* optimize only, so the loop ends on a verdict other than RETRY or on a
\* failed run. After k RETRY verdicts there were exactly k resubmissions.
C33_OptimizeEndsOnVerdictOnly ==
    /\ [][jpc = "optimize" =>
            \/ jpc' = "deploy" /\ retries' = retries + 1 /\ ~live'
            \/ Returns /\ result'.rc = 0 /\ retries' = retries]_vars
    /\ [][(jpc = "logs" /\ is_optimizing
            /\ fd_exit'.cause = "final_succeeded")
           => (jpc' = "optimize" /\ retries' = retries)]_vars
    /\ [][(Returns /\ is_optimizing /\ result'.rc = 0)
           => jpc = "optimize"]_vars
    /\ [][retries' # retries
           => (jpc = "optimize" /\ jpc' = "deploy")]_vars

\* C33 witness: the oracle answered RETRY MaxRetry times and then stopped,
\* no run failed (the step was never retried, the last run neither timed
\* out nor was unsatisfiable), and optimize returned 0 with the run's logs.
C33_Witness ==
    /\ jpc = "run_step_ret"
    /\ result.rc = 0
    /\ result.kind = "run_logs"
    /\ retries = MaxRetry
    /\ agent_attempts = 0
    /\ ~scale
    /\ ~was_timeout
    /\ ~was_unsatisfiable


\* ------------------------------------------------------------------------
\* Termination of the Orchestrator (checked under LiveSpec)
\* ------------------------------------------------------------------------
\* every step of the plan declares a maximum ("attempts" set and not 0)
AllFinite == \A i \in DOMAIN plan : plan[i].attempts # NoMaximum

\* run_tasks is over: it reported, or an exception left it
Terminated == pc \in {"done", "raised"}

StudyResumes == jpc = "scale" /\ cached_sizes # Unset

\* C35: the study state is set up once per study. The invocation of scale
\* that follows a failed size s and a retry of the step takes s first and
\* keeps the recorded figures of merit and the cached size list; only the
\* first invocation of a study sets them up; and between a failure and the
\* next invocation nothing touches them.
C35_StudyStateSetUpOnce ==
    /\ [][StudyResumes =>
            /\ jpc' = "optimize"
            /\ size' = size
            /\ sizes' = Tail(sizes)
            /\ scaling_attempts' = scaling_attempts
            /\ cached_sizes' = cached_sizes]_vars
    /\ [][(jpc = "scale" /\ cached_sizes = Unset) =>
            scaling_attempts' = <<>> /\ cached_sizes' = sizes]_vars
    /\ [][(jpc = "scale_ret" /\ result.rc # 0) =>
            /\ Head(sizes') = size
            /\ UNCHANGED <<size, scaling_attempts, cached_sizes>>]_vars
    /\ [][jpc \notin {"scale", "scale_ret", "scaling_agent"} =>
            UNCHANGED <<size, sizes, scaling_attempts, cached_sizes>>]_vars

\* C35 witness: the second size of a study failed, the step was run again,
\* and scale has just taken that size again with the figure of merit of
\* the first size still recorded.
C35_Witness ==
    /\ jpc = "optimize"
    /\ in_scale
    /\ scaling_result = "none"
    /\ ~is_optimizing
    /\ agent_attempts = 1
    /\ Len(scaling_attempts) = 1
    /\ ~DictHas(scaling_attempts, size)
    /\ cached_sizes # Unset
    /\ Len(cached_sizes) = 2
    /\ sizes = <<>>


\* a size is taken off the queue
SizePopped == Len(sizes') < Len(sizes)

\* C36: scale is never entered, and never asks the scaling agent, while
\* context.is_optimizing is true: a run that succeeds during an
\* optimization round goes back to optimize, and no size is popped while
\* the flag is set.
C36_NoScaleWhileOptimizing ==
    /\ [](jpc \in {"scale", "scaling_agent"} => ~is_optimizing)
    /\ [][(jpc = "logs" /\ is_optimizing /\ jpc' # "raised"
            /\ fd_exit'.cause = "final_succeeded")
           => (jpc' = "optimize" /\ UNCHANGED <<sizes, size, in_scale>>)]_vars
    /\ [][SizePopped => (~is_optimizing /\ ~is_optimizing')]_vars

\* C36 witness: inside a study, a resubmitted run of an optimization round
\* succeeded and went back to optimize, with sizes still waiting.
C36_Witness ==
    /\ jpc = "optimize"
    /\ is_optimizing
    /\ in_scale
    /\ sizes # <<>>
    /\ fd_exit.cause = "final_succeeded"
    /\ fd_exit.how = "optimize"


\* ------------------------------------------------------------------------
\* Properties of handle_failed_job (checked under JobSpec)
\* ------------------------------------------------------------------------
\* deploy has returned a failure to run_step
DeployFailed == jpc = "run_step_ret" /\ result.rc # 0

ScalingReturned == ag_kind = "scaling" /\ ag_pc = "done"

\* C38: ScalingAgent.run returns only with a scaling_result whose decision
\* is PROCEED or STOP, a STOP only after confirm_stop() answered yes for
\* it, and the result is written by the returning step only.
C38_ScalingVerdictConfirmed ==
    /\ [](ScalingReturned => ag_result \in {"PROCEED", "STOP"})
    /\ []((ScalingReturned /\ ag_result = "STOP") => ag_stop = "yes")
    /\ [][ag_result' # ag_result => ScalingReturned']_vars
    /\ [][ag_stop' = "yes" => ag_stop = "asked"]_vars

\* C38 witness: the user turned a first STOP down, the oracle answered STOP
\* again after a malformed answer, the user agreed, and the STOP was
\* returned.
C38_Witness ==
    /\ ScalingReturned
    /\ ag_result = "STOP"
    /\ ag_stop = "yes"
    /\ ag_rejects >= 1
    /\ ag_reprompts >= 1


\* ------------------------------------------------------------------------
\* Properties of the workspace-backed keys (checked under ContextSpec)
\* ------------------------------------------------------------------------
\* C39: a workspace-backed key is loaded from its file on the first read
\* only: when the key has a value in memory, get returns that value and
\* leaves it in place, whatever the file holds.
C39_LoadedOnFirstReadOnly ==
    (cx_pc = "executed" /\ cx_got.memory # 0)
      => (cx_got.returned = cx_got.memory
          /\ cx_data["result"] = cx_got.memory)

\* C40: in the kubernetes_job agent, every failure return of deploy that
\* comes after a successful kubectl apply (job failed, start timeout, pod
\* never ready, job failed during execution) has deleted the Job before it
\* returns: after such a return no Job object is left in the cluster.
C40_FailureAfterApplyDeletesJob ==
    (ag_kind = "kubernetes_job" /\ ag_return \in AfterApply) => ~ag_job

====
